---- MODULE Spec2Model ----
(***************************************************************************)
(* Checkpoint / restore / clone for containers (kawamuray/docker).         *)
(*                                                                         *)
(* Seven state machines share this module:                                 *)
(*   SpecBytes  - rewriteBytes of patch-criu.go as a function of its       *)
(*                arguments (the IPv4 substitution loop);                  *)
(*   SpecPatch  - the patch-criu program (main and its three directives)   *)
(*                over a small file system with inodes;                    *)
(*   Spec       - the daemon jobs and the native exec driver               *)
(*                (ContainerCheckpoint, ContainerRestore, driver.run,      *)
(*                driver.Checkpoint, driver.execRestore).                  *)
(*   SpecInspect - the checkpoint list of ContainerInspect.                 *)
(*   SpecClone   - ContainerCheckpoint.clone and patchImage on the files    *)
(*                 of one checkpoint.                                      *)
(*   SpecDump    - the command line of criu dump in driver.Checkpoint.      *)
(*   SpecTable   - the accesses to d.activeContainers and the driver's       *)
(*                 mutex.                                                  *)
(* Each specification leaves the variables of the other machines at their  *)
(* idle values.                                                            *)
(***************************************************************************)
EXTENDS Integers, Sequences, FiniteSets, TLC

VARIABLES
    \* ---- rewriteBytes (patch-criu.go:97-108) ----
    bpc,        \* "idle" | "loop" | "done"
    borig,      \* the data slice as passed in
    bdata,      \* the data slice, rewritten in place
    bfrom,      \* from
    bto,        \* to
    breplaced,  \* the local counter `replaced`
    \* ---- the patch-criu process and its files (patch-criu.go) ----
    fs,         \* directory -> file name -> inode (0: no entry)
    ino,        \* inode -> content
    ppc,        \* "idle" | "main" | "ip_ifaddr" | "ip_route" | "exited"
    pargs,      \* os.Args[3:]
    pi,         \* main: index into os.Args[3:] of the current directive
    psrc,       \* os.Args[1]
    pdst,       \* os.Args[2]
    pexit,      \* exit status of the process (-1 while it runs)
    prmfail,    \* whether os.Remove of a destination entry fails in this run
    pruns,      \* number of runs of the program so far
    pdata,      \* rewriteIPAddress: data / routeData
    pold,       \* rewriteIPAddress: oldAddress
    pnew,       \* rewriteIPAddress: newAddress
    prepl,      \* rewriteBytes: replaced
    \* history of the run, read only by the properties
    pret,       \* how the last directive returned: "none" | "ok" | "err"
    pbefore,    \* the destination directory when the current directive began
    pwrote,     \* file -> what the last successful directive wrote there
    pdump,      \* the last address `ip addr showdump` printed in this run:
                \* "none" | "in" (it occurs in the input) | "out" | "nil"
    pfirst      \* the re-run of a successful command line: the first result

\* The daemon and the native execution driver.
VARIABLES
    containers,        \* the containers the daemon knows (daemon.Get)
    checkpoints,       \* container.Checkpoints: container -> checkpoint ids
    images,            \* image directories on disk: <<container, id>> -> names
    mu,                \* container.Lock(): container -> the job holding it
    activeContainers,  \* driver.activeContainers: container -> the run that set it
    cgroup,            \* /sys/fs/cgroup/*/docker/<id> exists
    job,               \* the engine jobs (one goroutine each)
    run                \* the calls of driver.run and their executer goroutines

\* ContainerInspect: the enumeration of a container's checkpoints.
VARIABLES
    ireg,      \* container.Checkpoints: the CreatedAt of the checkpoints, in
               \* the order they were put into the map (the n-th has id n)
    irest,     \* range container.Checkpoints: the ids not yet visited
    ilist,     \* the slice `checkpoints`
    icur,      \* the variable `checkpoint` of the range loop
    ii,        \* the index i of the inner loop
    ipc,       \* "idle" | "range" | "shift" | "done"
    ifirst     \* the list an earlier enumeration of this registry gave

\* One clone of a checkpoint, file by file: ContainerCheckpoint.clone and
\* patchImage.
VARIABLES
    cpc,       \* "idle" | "mkdir" | "open" | "link" | "cloned" | "patch" |
               \* "rename" | "ok" | "err"
    cents      \* dirents: the names not yet visited by the loop

\* driver.Checkpoint: the command line of criu dump.
VARIABLES
    Volumes,   \* checkpoint.Volumes: host path -> guest path
    vrest,     \* range checkpoint.Volumes: the host paths not yet visited
    cmdArgs,   \* the slice cmdArgs
    apc        \* "idle" | "range" | "done"

VARIABLES
    tmu,       \* d.Mutex: the thread that holds it, or None
    ttab,      \* d.activeContainers: the ids that have an entry
    tpc,       \* thread -> "off" | "idle" | "insert" | "running" | "delete" |
               \* "returned" | "reading" | "done"
    tid,       \* thread -> c.ID of its call
    tout,      \* reader -> what d.activeContainers[c.ID] gave it
    traced     \* the readers whose read overlapped a write of the map

bvars == <<bpc, borig, bdata, bfrom, bto, breplaced>>

dvars == <<containers, checkpoints, images, mu, activeContainers, cgroup, job, run>>

pvars == <<fs, ino, ppc, pargs, pi, psrc, pdst, pexit, prmfail, pruns,
           pdata, pold, pnew, prepl, pret, pbefore, pwrote, pdump, pfirst>>

ivars == <<ireg, irest, ilist, icur, ii, ipc, ifirst>>

cvars == <<cpc, cents>>

avars == <<Volumes, vrest, cmdArgs, apc>>

tvars == <<tmu, ttab, tpc, tid, tout, traced>>

vars == <<bvars, pvars, dvars, ivars, cvars, avars, tvars>>

----------------------------------------------------------------------------
\* Bounds of the model.

\* bytes are 0..ByteMax
ByteMax == 1
\* longest data slice handed to rewriteBytes in SpecBytes
MaxData == 5
\* how many times the program is run on the same directories
MaxRuns == 2
\* width in bits of the counter `replaced` (a Go int; it wraps around only
\* in a call of rewriteBytes that never returns)
IntBits == 4

Byte == 0..ByteMax

Min(S) == CHOOSE x \in S : \A y \in S : x <= y

SeqsUpTo(S, n) == UNION {[1..k -> S] : k \in 0..n}

\* net.IP.To4() of an IPv4 address: 4 bytes
Addr4 == [1..4 -> Byte]
\* net.IP.To4() of something that is not an IPv4 address: nil, a slice of length 0
NilAddr == <<>>

----------------------------------------------------------------------------
\* rewriteBytes, patch-criu.go:97-108

\* bytes.Index(data, from): the first index (0-based) of from in data, -1 when
\* there is none; an empty from is found at index 0.
Index(data, from) ==
    IF Len(from) = 0 THEN 0
    ELSE LET S == {p \in 0..(Len(data) - Len(from)) :
                      SubSeq(data, p + 1, p + Len(from)) = from}
         IN  IF S = {} THEN -1 ELSE Min(S)

\* copy(data[pos:pos+len(to)], to).  The slice handed to rewriteBytes comes
\* from ioutil.ReadFile, whose capacity exceeds its length by at least
\* bytes.MinRead, so re-slicing past len(data) does not panic and the bytes
\* written past len(data) are never seen.
CopyAt(data, pos, to) ==
    [i \in 1..Len(data) |->
        IF i > pos /\ i <= pos + Len(to) THEN to[i - pos] ELSE data[i]]

\* `replaced++` on a signed integer of IntBits bits
Bump(n) == IF n + 1 = 2 ^ (IntBits - 1) THEN 0 - 2 ^ (IntBits - 1) ELSE n + 1

\* one evaluation of the loop body: [found, data, replaced]
RewriteBytesIter(data, from, to, replaced) ==
    LET pos == Index(data, from)
    IN  IF pos = -1
        THEN [found |-> FALSE, data |-> data, replaced |-> replaced]
        ELSE [found |-> TRUE, data |-> CopyAt(data, pos, to),
              replaced |-> Bump(replaced)]

BytesInit ==
    /\ bpc = "loop"
    /\ borig \in SeqsUpTo(Byte, MaxData)
    /\ bdata = borig
    /\ bfrom \in Addr4 \cup {NilAddr}
    /\ bto \in Addr4 \cup {NilAddr}
    /\ breplaced = 0

BytesIdle ==
    /\ bpc = "idle"
    /\ borig = <<>>
    /\ bdata = <<>>
    /\ bfrom = <<>>
    /\ bto = <<>>
    /\ breplaced = 0

\* for { pos := bytes.Index(data, from); ...; copy(...); replaced++ }
RewriteBytesLoop ==
    /\ bpc = "loop"
    /\ LET r == RewriteBytesIter(bdata, bfrom, bto, breplaced)
       IN  /\ r.found
           /\ bdata' = r.data
           /\ breplaced' = r.replaced
    /\ UNCHANGED <<tvars, avars, bpc, borig, bfrom, bto, pvars, dvars, ivars, cvars>>

\* if pos == -1 { break }; return replaced
RewriteBytesReturn ==
    /\ bpc = "loop"
    /\ ~RewriteBytesIter(bdata, bfrom, bto, breplaced).found
    /\ bpc' = "done"
    /\ UNCHANGED <<tvars, avars, borig, bdata, bfrom, bto, breplaced, pvars, dvars, ivars, cvars>>

BytesNext == RewriteBytesLoop \/ RewriteBytesReturn

----------------------------------------------------------------------------
\* The claim about rewriteBytes (C9) is stated against the leftmost,
\* non-overlapping occurrences of from in the original data.

RECURSIVE OccFrom(_, _, _)
\* the leftmost non-overlapping occurrences (0-based) of from in data[start..]
OccFrom(data, from, start) ==
    LET S == {p \in start..(Len(data) - Len(from)) :
                 SubSeq(data, p + 1, p + Len(from)) = from}
    IN  IF Len(from) = 0 \/ S = {} THEN {}
        ELSE {Min(S)} \cup OccFrom(data, from, Min(S) + Len(from))

Occ(data, from) == OccFrom(data, from, 0)

Covered(occ, n, i) == \E p \in occ : p < i /\ i <= p + n

BytesCase == bpc = "done" /\ Len(bfrom) = 4 /\ Len(bto) = 4 /\ bfrom # bto

\* C9: for distinct 4-byte old/new, rewriteBytes replaces every occurrence of
\* old in the original data by new, changes no byte outside those occurrences
\* and returns the number of occurrences of old in the original data.
C9_SubstitutesExactly ==
    BytesCase =>
        LET occ == Occ(borig, bfrom)
        IN  /\ \A p \in occ : SubSeq(bdata, p + 1, p + 4) = bto
            /\ \A i \in 1..Len(borig) :
                   ~Covered(occ, 4, i) => bdata[i] = borig[i]
            /\ breplaced = Cardinality(occ)

\* a terminated run in which a replacement created a further occurrence of old
C9_Compounds == BytesCase /\ breplaced >= 2 /\ Cardinality(Occ(borig, bfrom)) = 1

----------------------------------------------------------------------------
\* patch-criu: image files and the file system they live in.

\* Image directories.  "A" is a checkpoint image directory, "B" a second
\* directory (a clone's image directory or a destination given by hand),
\* "T" the temporary directory that patchImage makes.
Dirs == {"A", "B", "T"}
\* the pidfile of criu restore, driver.go:334
PidFile == "restore.pid"
Files == {"netdev-8.img", "ifaddr-8.img", "route-8.img", "cgroup.img", PidFile}

\* inode numbers; 0 in a directory means "no such entry"
MaxIno == 10
Inodes == 1..MaxIno
NoIno == 0
Free == [k |-> "free"]

\* ifaddr-8.img and route-8.img are handled as plain bytes
Raw(b) == [k |-> "raw", b |-> b]

\* netdev-8.img and cgroup.img: 4-byte magic, then (u32 length, message)*.
\*   hdr   "ok" | "ok2" | "short" : the 4 magic bytes (two different
\*                            values), or fewer than 4 bytes
\*   recs                   : the complete records, in order
\*   tail  "eof" | "shortlen" | "shortbody" : what follows the last complete
\*                            record: nothing, 1..3 bytes of a length prefix,
\*                            or a length prefix and fewer bytes than it says
\*   stale                  : bytes of an earlier, longer file follow
Stream(h, recs, tail, stale) ==
    [k |-> "stream", hdr |-> h, recs |-> recs, tail |-> tail, stale |-> stale]

\* a record body that proto.Unmarshal rejects
Garbage == [g |-> TRUE]

\* criu NetDeviceEntry: name (0 = absent) and address bytes
NetDev(name, addr) == [name |-> name, addr |-> addr]

\* criu CgroupDirEntry / CgroupEntry; paths and names are strings, modelled
\* as sequences of characters
CgDir(name, children) == [name |-> name, children |-> children]
CgEntry(sets, ctrls) == [sets |-> sets, ctrls |-> ctrls]

RECURSIVE SumSeq(_)
SumSeq(s) == IF s = <<>> THEN 0 ELSE Head(s) + SumSeq(Tail(s))

RECURSIVE DirSize(_)
\* encoded size of a directory entry (grows with its strings)
DirSize(d) ==
    1 + Len(d.name) + SumSeq([i \in 1..Len(d.children) |-> DirSize(d.children[i])])

\* len(proto.Marshal(rec)) up to a constant: it grows with the record's
\* variable-length fields
RecSize(r) ==
    IF "g" \in DOMAIN r THEN 1
    ELSE IF "addr" \in DOMAIN r THEN 2 + Len(r.addr)
    ELSE 1 + SumSeq([i \in 1..Len(r.sets) |->
                       SumSeq([j \in 1..Len(r.sets[i]) |-> 1 + Len(r.sets[i][j])])])
           + SumSeq([i \in 1..Len(r.ctrls) |->
                       SumSeq([j \in 1..Len(r.ctrls[i]) |-> DirSize(r.ctrls[i][j])])])

\* size of a file in bytes (up to the abstraction of RecSize)
Size(c) ==
    IF c.k = "raw" THEN Len(c.b)
    ELSE (IF c.hdr = "short" THEN 2 ELSE 4)
         + SumSeq([i \in 1..Len(c.recs) |-> 4 + RecSize(c.recs[i])])
         + (CASE c.tail = "eof" -> 0 [] c.tail = "shortlen" -> 2
              [] c.tail = "shortbody" -> 5)
         + (IF c.stale THEN 1 ELSE 0)

----------------------------------------------------------------------------
\* Conversions used by the directives.

\* hex digits are 0..15; any other character of a mac= value is NotHex
NotHex == 16

\* hex.DecodeString: an odd length or a non-hex character is an error,
\* otherwise one byte per two digits
HexDecode(s) ==
    IF Len(s) % 2 = 1 \/ \E i \in 1..Len(s) : s[i] >= NotHex
    THEN [err |-> TRUE, bytes |-> <<>>]
    ELSE [err |-> FALSE,
          bytes |-> [i \in 1..(Len(s) \div 2) |-> 16 * s[2 * i - 1] + s[2 * i]]]

IsPrefixAt(s, old, i) ==
    i + Len(old) - 1 <= Len(s) /\ SubSeq(s, i, i + Len(old) - 1) = old

RECURSIVE ReplaceFrom(_, _, _, _)
\* strings.Replace(s[i..], old, new, -1) for a non-empty old
ReplaceFrom(s, old, new, i) ==
    IF i > Len(s) THEN <<>>
    ELSE IF IsPrefixAt(s, old, i)
         THEN new \o ReplaceFrom(s, old, new, i + Len(old))
         ELSE <<s[i]>> \o ReplaceFrom(s, old, new, i + 1)

RECURSIVE Interleave(_, _, _)
Interleave(s, new, i) ==
    IF i > Len(s) THEN new ELSE new \o <<s[i]>> \o Interleave(s, new, i + 1)

\* strings.Replace(s, old, new, -1): leftmost non-overlapping matches; an
\* empty old matches before every character and at the end
StringsReplace(s, old, new) ==
    IF old = <<>> THEN Interleave(s, new, 1) ELSE ReplaceFrom(s, old, new, 1)

\* the directory's own name rewritten, its children left as they are
rewriteCgroupDirEntryShallow(dir, fromPattern, toPattern) ==
    CgDir(StringsReplace(dir.name, fromPattern, toPattern), dir.children)

RECURSIVE rewriteCgroupDirEntry(_, _, _)
\* patch-criu.go:161-166
rewriteCgroupDirEntry(dir, fromPattern, toPattern) ==
    CgDir(StringsReplace(dir.name, fromPattern, toPattern),
          [i \in 1..Len(dir.children) |->
              rewriteCgroupDirEntry(dir.children[i], fromPattern, toPattern)])

\* patch-criu.go:209-218: the body of the record loop of rewriteCgroupPaths
RewriteCgroupEntry(e, fromPattern, toPattern) ==
    CgEntry([i \in 1..Len(e.sets) |->
                [j \in 1..Len(e.sets[i]) |->
                    StringsReplace(e.sets[i][j], fromPattern, toPattern)]],
            [i \in 1..Len(e.ctrls) |->
                [j \in 1..Len(e.ctrls[i]) |->
                    rewriteCgroupDirEntry(e.ctrls[i][j], fromPattern, toPattern)]])

\* the address replaced whatever the name of the device
RewriteNetDevAny(device, mac) ==
    LET h == HexDecode(mac)
    IN  IF h.err THEN [err |-> TRUE, rec |-> device]
        ELSE [err |-> FALSE, rec |-> NetDev(device.name, h.bytes)]

\* patch-criu.go:73-80: the body of the record loop of rewriteMacAddress
\* for a record that decoded; [err, rec]
RewriteNetDev(device, mac) ==
    IF device.name = "eth0"
    THEN LET h == HexDecode(mac)
         IN  IF h.err THEN [err |-> TRUE, rec |-> device]
             ELSE [err |-> FALSE, rec |-> NetDev(device.name, h.bytes)]
    ELSE [err |-> FALSE, rec |-> device]

\* One record of a stream through its directive: [err, rec].  d is the
\* directive: [key |-> "mac", mac |-> ..] or [key |-> "cgroup", old, new].
RewriteRec(rec, d) ==
    IF rec = Garbage THEN [err |-> TRUE, rec |-> rec]
    ELSE IF d.key = "mac" THEN RewriteNetDev(rec, d.mac)
    ELSE [err |-> FALSE, rec |-> RewriteCgroupEntry(rec, d.old, d.new)]

\* the copy loop with a short read taken for the end of the file
CopyStreamToEOF(c, d, inplace) ==
    IF c.hdr = "short"
    THEN [err |-> FALSE, out |-> Stream("short", <<>>, "eof", FALSE)]
    ELSE
    LET n == Len(c.recs)
        res == [i \in 1..n |-> RewriteRec(c.recs[i], d)]
        bad == {i \in 1..n : res[i].err}
        shift == {i \in 1..n : ~res[i].err /\ inplace
                                /\ RecSize(res[i].rec) # RecSize(c.recs[i])}
        stopErr == IF bad = {} THEN n + 1 ELSE Min(bad)
        stopShift == IF shift = {} THEN n + 1 ELSE Min(shift)
        written == IF stopShift < stopErr THEN stopShift ELSE stopErr - 1
        outRecs == [i \in 1..written |-> res[i].rec]
    IN  [err |-> stopErr <= n \/ stopShift <= n,
         out |-> Stream(c.hdr, outRecs, "eof", FALSE)]

\* The copy loop shared by rewriteMacAddress (patch-criu.go:47-94) and
\* rewriteCgroupPaths (patch-criu.go:183-233), given the content of the
\* source file: what has been written to the destination when the function
\* returns, and whether it returns an error.
\*   inplace: the destination handle is the source's own inode, opened
\*   without truncation (os.Remove failed and source = destination).  Then
\*   a record written with another size than the one read shifts what the
\*   next read sees.
CopyStream(c, d, inplace) ==
    IF c.hdr = "short"
    THEN [err |-> TRUE, out |-> Stream("short", <<>>, "eof", FALSE)]
    ELSE
    LET n == Len(c.recs)
        res == [i \in 1..n |-> RewriteRec(c.recs[i], d)]
        bad == {i \in 1..n : res[i].err}
        shift == {i \in 1..n : ~res[i].err /\ inplace
                                /\ RecSize(res[i].rec) # RecSize(c.recs[i])}
        stopErr == IF bad = {} THEN n + 1 ELSE Min(bad)
        stopShift == IF shift = {} THEN n + 1 ELSE Min(shift)
        written == IF stopShift < stopErr THEN stopShift ELSE stopErr - 1
        outRecs == [i \in 1..written |-> res[i].rec]
        err == \/ stopErr <= n \/ stopShift <= n
               \/ c.tail # "eof" \/ c.stale
    IN  [err |-> err, out |-> Stream(c.hdr, outRecs, "eof", FALSE)]

----------------------------------------------------------------------------
\* File system operations.  F is [fs |-> directories, ino |-> inode contents].

Absent == [k |-> "absent"]

Referenced(dirs) == {dirs[d][n] : d \in Dirs, n \in Files} \ {NoIno}

\* contents of unreferenced inodes are dropped
Collect(F) ==
    [fs |-> F.fs,
     ino |-> [i \in Inodes |-> IF i \in Referenced(F.fs) THEN F.ino[i] ELSE Free]]

\* what a directory looks like to a reader: file name -> content
DirView(F, d) ==
    [n \in Files |-> IF F.fs[d][n] = NoIno THEN Absent ELSE F.ino[F.fs[d][n]]]

\* the destination entry left in place
OsRemoveNot(F, d, n, fails) == F

\* os.Remove(path), its error ignored by every caller in patch-criu.go
OsRemove(F, d, n, fails) ==
    IF fails \/ F.fs[d][n] = NoIno THEN F
    ELSE [F EXCEPT !.fs[d][n] = NoIno]

\* writing c from offset 0 into a file that holds old, without truncation
Overlay(c, old) ==
    IF old.k # "stream" \/ Size(c) >= Size(old) THEN c
    ELSE [c EXCEPT !.stale = TRUE]

\* os.OpenFile(path, O_WRONLY|O_CREATE[|O_TRUNC]) followed by writing c.
\* An existing entry is written through to its inode (shared with every
\* hard link to it); otherwise a new inode is made.  held: inodes that are
\* still open and so cannot be handed out again.
CreateWrite(F, d, n, c, trunc, held) ==
    IF F.fs[d][n] # NoIno
    THEN [F EXCEPT !.ino[F.fs[d][n]] = IF trunc THEN c ELSE Overlay(c, @)]
    ELSE LET i == Min(Inodes \ (Referenced(F.fs) \cup held))
         IN  [fs |-> [F.fs EXCEPT ![d][n] = i],
              ino |-> [F.ino EXCEPT ![i] = c]]

----------------------------------------------------------------------------
\* The directives as functions of the file system: [err, F].

StreamFile(key) == IF key = "mac" THEN "netdev-8.img" ELSE "cgroup.img"

\* rewriteMacAddress (patch-criu.go:32-95) and rewriteCgroupPaths
\* (patch-criu.go:168-234): open the source, remove and re-create the
\* destination, copy the stream.
RewriteStreamFile(F, src, dst, d, rmfails) ==
    LET n == StreamFile(d.key)
        si == F.fs[src][n]
    IN  IF si = NoIno THEN [err |-> TRUE, F |-> F]
        ELSE LET F1 == OsRemove(F, dst, n, rmfails)
                 r == CopyStream(F.ino[si], d, F1.fs[dst][n] = si)
             IN  [err |-> r.err,
                  F |-> Collect(CreateWrite(F1, dst, n, r.out, FALSE, {si}))]

rewriteMacAddress(F, src, dst, d, rmfails) ==
    RewriteStreamFile(F, src, dst, d, rmfails)

rewriteCgroupPaths(F, src, dst, d, rmfails) ==
    RewriteStreamFile(F, src, dst, d, rmfails)

\* replaceWrite (patch-criu.go:110-113): os.Remove, then ioutil.WriteFile
\* (O_WRONLY|O_CREATE|O_TRUNC)
replaceWrite(F, d, n, data, rmfails) ==
    Collect(CreateWrite(OsRemove(F, d, n, rmfails), d, n, Raw(data), TRUE, {}))

----------------------------------------------------------------------------
\* Inputs of the patch-criu model.

a1 == <<0, 0, 0, 1>>
a2 == <<0, 0, 1, 1>>
a3 == <<1, 1, 0, 1>>
AddrPool == {a1, a2, a3}

\* what `ip addr showdump` and the regular expression of patch-criu.go:130
\* can come to: the tool fails, no line matches, or a dotted quad matches
\* (one that net.ParseIP rejects gives a nil oldAddress)
DumpOutcomes ==
    {[t |-> "err"], [t |-> "nomatch"]} \cup
    {[t |-> "addr", a |-> a] : a \in AddrPool \cup {NilAddr}}

\* the value of an ip= directive: an IPv4 address, an IPv6 address or not
\* an address
IpV4(a) == [t |-> "v4", a |-> a]
IpV6 == [t |-> "v6", a |-> NilAddr]
IpBad == [t |-> "bad", a |-> NilAddr]

DIp(v) == [key |-> "ip", eq |-> TRUE, ip |-> v]
DMac(m) == [key |-> "mac", eq |-> TRUE, mac |-> m]
DCgroup(old, new) == [key |-> "cgroup", eq |-> TRUE, colon |-> TRUE,
                      old |-> old, new |-> new]
\* cgroup=VALUE with no ':' in VALUE
DCgroupNoColon == [key |-> "cgroup", eq |-> TRUE, colon |-> FALSE,
                   old |-> <<>>, new |-> <<>>]
\* a key that main does not know
DUnknown == [key |-> "foo", eq |-> TRUE]
\* an argument "mac" with no '=': strings.SplitN gives one element
DMacNoEq == [key |-> "mac", eq |-> FALSE, mac |-> <<>>]

\* mac= values: two digits of one byte, an odd number of digits, a non-digit
MacGood == <<0, 2>>
MacOther == <<0, 3>>
MacOdd == <<0>>
MacNotHex == <<0, NotHex>>

\* characters of cgroup paths
PathS == <<1, 2>>
PathT == <<1, 3>>
PathU == <<3>>

ArgLists ==
    {<<DMac(MacGood)>>, <<DMac(MacOdd)>>, <<DMacNoEq>>, <<DUnknown>>,
     <<DIp(IpV4(a2))>>, <<DIp(IpV4(a3))>>, <<DIp(IpV6)>>, <<DIp(IpBad)>>,
     <<DCgroup(PathS, PathT)>>, <<DCgroupNoColon>>,
     <<DMac(MacGood), DIp(IpV4(a2))>>,
     <<DIp(IpV4(a2)), DMac(MacGood), DCgroup(PathS, PathT)>>,
     <<DMac(MacGood), DMac(MacNotHex)>>,
     <<DMac(MacOther), DUnknown>>,
     <<DCgroup(PathS, PathU), DCgroupNoColon, DMac(MacGood)>>,
     <<DIp(IpV4(a2)), DIp(IpV4(a3))>>}

\* netdev-8.img
NetGood == Stream("ok", <<NetDev("lo", <<9>>), NetDev("eth0", <<1>>)>>, "eof", FALSE)
NetLong == Stream("ok2", <<NetDev("eth0", <<1, 1>>), NetDev("", <<7>>)>>, "eof", FALSE)
NetGarbage == Stream("ok", <<NetDev("lo", <<9>>), Garbage, NetDev("eth0", <<1>>)>>,
                     "eof", FALSE)
NetShortBody == Stream("ok", <<NetDev("eth0", <<1>>)>>, "shortbody", FALSE)
NetShortLen == Stream("ok", <<NetDev("lo", <<9>>)>>, "shortlen", FALSE)
NetShortHdr == Stream("short", <<>>, "eof", FALSE)

\* ifaddr-8.img, route-8.img
RawOne == Raw(<<1>> \o a1 \o <<1>>)
RawCompound == Raw(<<0>> \o a1)
RawTwo == Raw(a1 \o a1)
RawNone == Raw(<<1, 1, 1>>)

\* cgroup.img
CgGood ==
    Stream("ok",
           <<CgEntry(<<<<PathS, PathU>>>>,
                     <<<<CgDir(PathS, <<CgDir(PathS \o PathS, <<>>)>>)>>>>),
             CgEntry(<<<<PathU \o PathS>>, <<PathT>>>>,
                     <<<<CgDir(PathU, <<CgDir(PathT \o PathS \o PathU, <<>>)>>)>>,
                       <<CgDir(PathT, <<>>), CgDir(PathS, <<>>)>>>>)>>,
           "eof", FALSE)
CgShort == Stream("ok", <<CgEntry(<<<<PathS>>>>, <<>>)>>, "shortbody", FALSE)

ImageOf(net, ifa, rt, cg) ==
    [n \in Files |-> CASE n = "netdev-8.img" -> net
                       [] n = "ifaddr-8.img" -> ifa
                       [] n = "route-8.img" -> rt
                       [] n = "cgroup.img" -> cg
                       [] n = PidFile -> Absent]

\* the image directories the runs start from: a well-formed one, and the
\* same with one file damaged or missing
Images ==
    {ImageOf(NetGood, RawOne, RawOne, CgGood)} \cup
    {ImageOf(x, RawOne, RawOne, CgGood) :
        x \in {NetLong, NetGarbage, NetShortBody, NetShortLen, NetShortHdr, Absent}} \cup
    {ImageOf(NetGood, x, RawOne, CgGood) : x \in {RawCompound, RawTwo, Absent}} \cup
    {ImageOf(NetGood, RawOne, x, CgGood) : x \in {RawNone, RawCompound, Absent}} \cup
    {ImageOf(NetGood, RawOne, RawOne, x) : x \in {CgShort, Absent}}

\* an older image that directory "B" may hold from before
OldImage == ImageOf(NetLong, RawTwo, RawTwo, CgGood)

\* number the files of a directory
FileNo(n) == CASE n = "netdev-8.img" -> 1 [] n = "ifaddr-8.img" -> 2
               [] n = "route-8.img" -> 3 [] n = "cgroup.img" -> 4
               [] n = PidFile -> 9

\* Directory "A" holds img at inodes 1..4.  Directory "B" is empty
\* ("empty"), holds hard links to A's files ("linked"), or holds OldImage at
\* inodes 5..8 ("old").  There is no restore.pid, and "T" is empty.
Layout(img, b) ==
    [fs |-> [d \in Dirs |-> [n \in Files |->
                IF d = "A" THEN (IF img[n] = Absent THEN NoIno ELSE FileNo(n))
                ELSE IF d = "T" \/ n = PidFile THEN NoIno
                ELSE CASE b = "empty" -> NoIno
                       [] b = "linked" -> (IF img[n] = Absent THEN NoIno ELSE FileNo(n))
                       [] b = "old" -> 4 + FileNo(n)]],
     ino |-> [i \in Inodes |->
                IF i <= 4
                THEN (LET n == CHOOSE m \in Files : FileNo(m) = i
                      IN  IF img[n] = Absent THEN Free ELSE img[n])
                ELSE IF i <= 8 /\ b = "old"
                THEN OldImage[CHOOSE m \in Files : FileNo(m) = i - 4]
                ELSE Free]]

Untouched == [k |-> "untouched"]
NoFirst == [set |-> FALSE]

----------------------------------------------------------------------------
\* The patch-criu process.

FS == [fs |-> fs, ino |-> ino]

DirPairs == {<<"A", "B">>, <<"B", "B">>, <<"A", "A">>}

Targets(key) ==
    CASE key = "mac" -> {"netdev-8.img"}
      [] key = "ip" -> {"ifaddr-8.img", "route-8.img"}
      [] key = "cgroup" -> {"cgroup.img"}
      [] OTHER -> {}

\* the entries and contents of a directory, and the contents of the source
\* directory, as a directive finds them
Before(F, d) == [ents |-> F.fs[d], view |-> DirView(F, d), src |-> DirView(F, psrc)]

\* whether the address the dump utility printed is one its input holds
Faithfulness(data, a) ==
    IF Len(a) # 4 THEN "nil" ELSE IF Index(data, a) = -1 THEN "out" ELSE "in"

PatchIdle ==
    /\ ppc = "idle"
    /\ pargs = <<>>
    /\ pi = 1
    /\ psrc = "A"
    /\ pdst = "A"
    /\ pexit = -1
    /\ prmfail = FALSE
    /\ pruns = 0
    /\ pdata = <<>>
    /\ pold = <<>>
    /\ pnew = <<>>
    /\ prepl = 0
    /\ pret = "none"
    /\ pbefore = Before(FS, "A")
    /\ pwrote = [n \in Files |-> Untouched]
    /\ pdump = "none"
    /\ pfirst = NoFirst

\* no process yet; "A" holds one of imgs
PatchInitOf(imgs) ==
    /\ \E img \in imgs, b \in {"empty", "linked", "old"} :
          /\ fs = Layout(img, b).fs
          /\ ino = Layout(img, b).ino
    /\ PatchIdle

PatchInit == PatchInitOf(Images)

\* the variables of one run, as the process starts
Start(args, s, d, rmf) ==
    /\ ppc' = "main"
    /\ pargs' = args
    /\ pi' = 1
    /\ psrc' = s
    /\ pdst' = d
    /\ pexit' = -1
    /\ prmfail' = rmf
    /\ pruns' = pruns + 1
    /\ pret' = "none"
    /\ pwrote' = [n \in Files |-> Untouched]
    /\ pdump' = "none"
    /\ UNCHANGED <<fs, ino, pdata, pold, pnew, prepl, pbefore>>

\* patch-criu SRC_DIR DEST_DIR directive..., the directives one of lists
Invoke(lists) ==
    /\ ppc = "idle"
    /\ \E args \in lists, sd \in DirPairs, rmf \in BOOLEAN :
          Start(args, sd[1], sd[2], rmf)
    /\ pfirst' = NoFirst
    /\ UNCHANGED <<tvars, avars, bvars, dvars, ivars, cvars>>

PatchInvoke == Invoke(ArgLists)

\* the same command line once more, reading the directory the last run wrote
PatchReinvoke ==
    /\ ppc = "exited"
    /\ pruns < MaxRuns
    /\ \E d \in {sd[2] : sd \in DirPairs} : Start(pargs, pdst, d, prmfail)
    /\ pfirst' = [set |-> TRUE, exit |-> pexit, view |-> DirView(FS, pdst)]
    /\ UNCHANGED <<tvars, avars, bvars, dvars, ivars, cvars>>

\* main, patch-criu.go:262-265 and the end of the loop body: the directive
\* returned err (exit 1) or nil (next directive); F is the file system it left
Returned(err, F, key) ==
    /\ fs' = F.fs
    /\ ino' = F.ino
    /\ pret' = IF err THEN "err" ELSE "ok"
    /\ ppc' = IF err THEN "exited" ELSE "main"
    /\ pexit' = IF err THEN 1 ELSE pexit
    /\ pi' = IF err THEN pi ELSE pi + 1
    /\ pwrote' = IF err THEN pwrote
                 ELSE [n \in Files |-> IF n \in Targets(key)
                                       THEN DirView(F, pdst)[n] ELSE pwrote[n]]
    /\ pdata' = <<>>
    /\ pold' = <<>>
    /\ pnew' = <<>>
    /\ prepl' = 0

Cur == pargs[pi]
InMain == ppc = "main" /\ pi <= Len(pargs)

\* case "mac": err = rewriteMacAddress(srcPath, destPath, kv[1])
MainMac ==
    /\ InMain /\ Cur.key = "mac" /\ Cur.eq
    /\ LET r == rewriteMacAddress(FS, psrc, pdst, Cur, prmfail)
       IN  Returned(r.err, r.F, "mac")
    /\ pbefore' = Before(FS, pdst)
    /\ UNCHANGED <<tvars, avars, pargs, psrc, pdst, prmfail, pruns, pdump, pfirst, bvars, dvars, ivars, cvars>>

\* case "cgroup": strings.SplitN(kv[1], ":", 2), then rewriteCgroupPaths
MainCgroup ==
    /\ InMain /\ Cur.key = "cgroup" /\ Cur.eq
    /\ LET r == IF Cur.colon
                THEN rewriteCgroupPaths(FS, psrc, pdst, Cur, prmfail)
                ELSE [err |-> TRUE, F |-> FS]
       IN  Returned(r.err, r.F, "cgroup")
    /\ pbefore' = Before(FS, pdst)
    /\ UNCHANGED <<tvars, avars, pargs, psrc, pdst, prmfail, pruns, pdump, pfirst, bvars, dvars, ivars, cvars>>

\* default: err = fmt.Errorf("unkown key: %s", kv[0])
MainUnknown ==
    /\ InMain /\ Cur.key \notin {"ip", "mac", "cgroup"}
    /\ Returned(TRUE, FS, Cur.key)
    /\ pbefore' = Before(FS, pdst)
    /\ UNCHANGED <<tvars, avars, pargs, psrc, pdst, prmfail, pruns, pdump, pfirst, bvars, dvars, ivars, cvars>>

\* kv[1] of an argument without '=': index out of range, the runtime
\* panics and the process exits with status 2
MainPanic ==
    /\ InMain /\ Cur.key \in {"ip", "mac", "cgroup"} /\ ~Cur.eq
    /\ ppc' = "exited"
    /\ pexit' = 2
    /\ pret' = "none"
    /\ UNCHANGED <<tvars, avars, fs, ino, pargs, pi, psrc, pdst, prmfail, pruns, pdata, pold,
                   pnew, prepl, pbefore, pwrote, pdump, pfirst, bvars, dvars, ivars, cvars>>

\* rewriteIPAddress, patch-criu.go:117-143: read ifaddr-8.img, run
\* `ip addr showdump`, find the old address, parse the new one
MainIp ==
    /\ InMain /\ Cur.key = "ip" /\ Cur.eq
    /\ pbefore' = Before(FS, pdst)
    /\ LET si == fs[psrc]["ifaddr-8.img"]
       IN  IF si = NoIno
           THEN Returned(TRUE, FS, "ip") /\ UNCHANGED pdump
           ELSE \E o \in DumpOutcomes :
                  IF o.t # "addr" \/ Cur.ip.t = "bad"
                  THEN Returned(TRUE, FS, "ip") /\ UNCHANGED pdump
                  ELSE /\ ppc' = "ip_ifaddr"
                       /\ pdata' = ino[si].b
                       /\ pold' = o.a
                       /\ pnew' = Cur.ip.a
                       /\ prepl' = 0
                       /\ pret' = "none"
                       /\ pdump' = Faithfulness(ino[si].b, o.a)
                       /\ UNCHANGED <<fs, ino, pi, pexit, pwrote>>
    /\ UNCHANGED <<tvars, avars, pargs, psrc, pdst, prmfail, pruns, pfirst, bvars, dvars, ivars, cvars>>

\* the comparison off by one
NoneReplacedBelowZero(replaced) == replaced < 0

\* if replaced := rewriteBytes(...); replaced < 1, patch-criu.go:144 and 155
NoneReplaced(replaced) == replaced < 1

\* one iteration of rewriteBytes on data (patch-criu.go:144) or on
\* routeData (patch-criu.go:155)
IpRewriteBytes ==
    /\ ppc \in {"ip_ifaddr", "ip_route"}
    /\ LET r == RewriteBytesIter(pdata, pold, pnew, prepl)
       IN  /\ r.found
           /\ pdata' = r.data
           /\ prepl' = r.replaced
    /\ UNCHANGED <<tvars, avars, fs, ino, ppc, pargs, pi, psrc, pdst, pexit, prmfail, pruns,
                   pold, pnew, pret, pbefore, pwrote, pdump, pfirst, bvars, dvars, ivars, cvars>>

\* patch-criu.go:144-154: rewriteBytes returned for ifaddr-8.img; write it
\* and read route-8.img
IpIfaddrDone ==
    /\ ppc = "ip_ifaddr"
    /\ ~RewriteBytesIter(pdata, pold, pnew, prepl).found
    /\ IF NoneReplaced(prepl)
       THEN Returned(TRUE, FS, "ip")
       ELSE LET F1 == replaceWrite(FS, pdst, "ifaddr-8.img", pdata, prmfail)
                ri == F1.fs[psrc]["route-8.img"]
            IN  IF ri = NoIno
                THEN Returned(TRUE, F1, "ip")
                ELSE /\ fs' = F1.fs
                     /\ ino' = F1.ino
                     /\ ppc' = "ip_route"
                     /\ pdata' = F1.ino[ri].b
                     /\ prepl' = 0
                     /\ UNCHANGED <<pi, pexit, pold, pnew, pret, pwrote>>
    /\ UNCHANGED <<tvars, avars, pargs, psrc, pdst, prmfail, pruns, pbefore, pdump, pfirst, bvars, dvars, ivars, cvars>>

\* patch-criu.go:155-158: rewriteBytes returned for route-8.img; write it
IpRouteDone ==
    /\ ppc = "ip_route"
    /\ ~RewriteBytesIter(pdata, pold, pnew, prepl).found
    /\ IF NoneReplaced(prepl)
       THEN Returned(TRUE, FS, "ip")
       ELSE Returned(FALSE, replaceWrite(FS, pdst, "route-8.img", pdata, prmfail), "ip")
    /\ UNCHANGED <<tvars, avars, pargs, psrc, pdst, prmfail, pruns, pbefore, pdump, pfirst, bvars, dvars, ivars, cvars>>

\* the loop over os.Args[3:] is over: main returns, exit status 0
MainExit ==
    /\ ppc = "main" /\ pi > Len(pargs)
    /\ ppc' = "exited"
    /\ pexit' = 0
    /\ UNCHANGED <<tvars, avars, fs, ino, pargs, pi, psrc, pdst, prmfail, pruns, pdata, pold,
                   pnew, prepl, pret, pbefore, pwrote, pdump, pfirst, bvars, dvars, ivars, cvars>>

PatchNext ==
    \/ PatchInvoke
    \/ PatchReinvoke
    \/ MainMac
    \/ MainCgroup
    \/ MainUnknown
    \/ MainPanic
    \/ MainIp
    \/ IpRewriteBytes
    \/ IpIfaddrDone
    \/ IpRouteDone
    \/ MainExit

----------------------------------------------------------------------------
\* The daemon: containers, their checkpoints, and the jobs ContainerCheckpoint
\* and ContainerRestore.

None == "none"

\* container ids: "c1" exists from the start, the others are what
\* daemon.Create hands out to clones
Ids == {"c1", "c2", "c3"}
\* checkpoint ids: "k1" is a checkpoint of "c1", the others are fresh
CkIds == {"k1", "k2", "k3"}
\* engine jobs, each served by its own goroutine
Jobs == {"j1", "j2"}
\* the call of driver.Run that started "c1"
InitRun == "run0"
\* the calls of driver.run: each job's Restore, and InitRun
Runs == Jobs \cup {InitRun}

ImageFiles == {"core-1.img", "netdev-8.img"}

NoDir == [exists |-> FALSE, names |-> {}]
Dir(names) == [exists |-> TRUE, names |-> names]
NoImg == <<None, None>>

\* execOutput, driver.go:67-70, and an empty channel or result
NoOut == [set |-> FALSE]
Out(code, err) == [set |-> TRUE, code |-> code, err |-> err]

\* a checkpoint of the registry: the CreatedAt of the k-th checkpoint of
\* container c is written <<c, k>>, the time at which it was taken
Checkpoint(c, k) == [ID |-> k, CreatedAt |-> <<c, k>>, container |-> c]
\* no checkpoint
NilCheckpoint == [ID |-> None, CreatedAt |-> NoImg, container |-> None]

IdleJob ==
    [pc |-> "idle", op |-> None, name |-> None, id |-> None, clone |-> FALSE,
     tgt |-> None, ents |-> {}, res |-> None, newCheckpoint |-> NilCheckpoint,
     \* history, read only by the properties
     miss |-> FALSE, made |-> {}, dirs |-> {}, drv |-> FALSE]

IdleRun ==
    [pc |-> "idle", kind |-> None, cid |-> None, img |-> NoImg,
     out |-> NoOut, started |-> FALSE, res |-> NoOut,
     epc |-> "idle", proc |-> "none", cb |-> FALSE,
     \* execRestore's local variable pid (driver.go:418)
     pid |-> None,
     \* history, read only by the properties
     launched |-> FALSE, had |-> FALSE, eret |-> None, steps |-> <<>>]

\* run() of a started container: it waits for the container to exit
\* (driver.go:172) while exec waits for the init process
StartedRun ==
    [IdleRun EXCEPT !.pc = "wait", !.kind = "exec", !.cid = "c1",
                    !.started = TRUE, !.epc = "wait", !.proc = "alive",
                    !.cb = TRUE]

\* "c1" with its checkpoint "k1", running or stopped; a stopped container
\* may have left its cgroup directories behind
DaemonInit ==
    \E running \in BOOLEAN, stale \in BOOLEAN :
        /\ containers = {"c1"}
        /\ checkpoints = [c \in Ids |-> IF c = "c1" THEN {"k1"} ELSE {}]
        /\ images = [i \in Ids \X CkIds |->
                        IF i = <<"c1", "k1">> THEN Dir(ImageFiles) ELSE NoDir]
        /\ mu = [c \in Ids |-> None]
        /\ activeContainers = [c \in Ids |->
                                  IF c = "c1" /\ running THEN InitRun ELSE None]
        /\ cgroup = [c \in Ids |-> c = "c1" /\ (running \/ stale)]
        /\ job = [j \in Jobs |-> IdleJob]
        /\ run = [r \in Runs |-> IF r = InitRun /\ running THEN StartedRun
                                 ELSE IdleRun]

\* no daemon
DaemonIdle ==
    /\ containers = {}
    /\ checkpoints = [c \in Ids |-> {}]
    /\ images = [i \in Ids \X CkIds |-> NoDir]
    /\ mu = [c \in Ids |-> None]
    /\ activeContainers = [c \in Ids |-> None]
    /\ cgroup = [c \in Ids |-> FALSE]
    /\ job = [j \in Jobs |-> IdleJob]
    /\ run = [r \in Runs |-> IdleRun]

\* the job returns its status
Done(j, err) ==
    [job[j] EXCEPT !.pc = "done", !.res = IF err THEN "err" ELSE "ok"]

\* an identifier no checkpoint of c uses yet
FreshCk(c) ==
    IF ~images[<<c, "k2">>].exists /\ "k2" \notin checkpoints[c] THEN "k2" ELSE "k3"

\* the id daemon.Create gives the next container
FreshId == IF "c2" \notin containers THEN "c2" ELSE "c3"

\* ContainerCheckpoint up to the call of container.Checkpoint
ContainerCheckpoint(j) ==
    /\ job[j].pc = "idle"
    /\ \E name \in {"c1", "c2"} :
          job' = [job EXCEPT ![j] =
                    IF name \notin containers
                    THEN [Done(j, TRUE) EXCEPT !.op = "checkpoint", !.name = name]
                    ELSE [job[j] EXCEPT !.pc = "ck_lock", !.op = "checkpoint",
                                        !.name = name]]
    /\ UNCHANGED <<tvars, avars, bvars, pvars, ivars, cvars, containers, checkpoints, images, mu, activeContainers,
                   cgroup, run>>

\* container.Checkpoint: take the container's lock and make the image
\* directory of a fresh checkpoint
CheckpointLock(j) ==
    /\ job[j].pc = "ck_lock"
    /\ mu[job[j].name] = None
    /\ LET c == job[j].name
           k == FreshCk(c)
       IN  /\ mu' = [mu EXCEPT ![c] = j]
           /\ images' = [images EXCEPT ![<<c, k>>] = Dir({})]
           /\ job' = [job EXCEPT ![j].pc = "ck_driver", ![j].id = k]
    /\ UNCHANGED <<tvars, avars, bvars, pvars, ivars, cvars, containers, checkpoints, activeContainers, cgroup, run>>

\* driver.Checkpoint: the container must be in d.activeContainers (the map
\* is read without d.Lock())
DriverCheckpoint(j) ==
    /\ job[j].pc = "ck_driver"
    /\ job' = [job EXCEPT ![j].pc = IF activeContainers[job[j].name] = None
                                    THEN "ck_fail" ELSE "ck_criu",
                          ![j].drv = TRUE]
    /\ UNCHANGED <<tvars, avars, bvars, pvars, ivars, cvars, containers, checkpoints, images, mu, activeContainers,
                   cgroup, run>>

\* the processes of container c that are alive
Alive(c) == {r \in Runs : run[r].cid = c /\ run[r].proc = "alive"}

\* exec.Command("criu", cmdArgs...).CombinedOutput(): a dump that succeeds
\* writes the image files and leaves the dumped process dead; it cannot
\* succeed when the process is gone
DriverCheckpointCriu(j) ==
    /\ job[j].pc = "ck_criu"
    /\ LET c == job[j].name
       IN  \/ /\ job' = [job EXCEPT ![j].pc = "ck_fail"]
              /\ UNCHANGED <<images, run>>
           \/ \E r \in Alive(c) :
                /\ images' = [images EXCEPT ![<<c, job[j].id>>] = Dir(ImageFiles)]
                /\ run' = [run EXCEPT ![r].proc = "zombie"]
                /\ job' = [job EXCEPT ![j].pc = "ck_ok"]
    /\ UNCHANGED <<tvars, avars, bvars, pvars, ivars, cvars, containers, checkpoints, mu, activeContainers, cgroup>>

\* container.Checkpoint returns: a successful dump is registered, the image
\* directory of a failed one is removed; the lock is released
CheckpointReturn(j) ==
    /\ job[j].pc \in {"ck_ok", "ck_fail"}
    /\ LET c == job[j].name
           k == job[j].id
           ok == job[j].pc = "ck_ok"
       IN  /\ checkpoints' = IF ok THEN [checkpoints EXCEPT ![c] = @ \cup {k}]
                             ELSE checkpoints
           /\ images' = IF ok THEN images ELSE [images EXCEPT ![<<c, k>>] = NoDir]
           /\ mu' = [mu EXCEPT ![c] = None]
           /\ job' = [job EXCEPT ![j] = Done(j, ~ok)]
    /\ UNCHANGED <<tvars, avars, bvars, pvars, ivars, cvars, containers, activeContainers, cgroup, run>>

\* the lookup of the checkpoint left out
LookupSkipped(reg, c, k) == TRUE

\* checkpoint := container.Checkpoints[checkpointID]; checkpoint != nil
Lookup(reg, c, k) == k \in reg[c]

\* ContainerRestore up to the clone or the call of container.Restore:
\* the container and the checkpoint are looked up first
ContainerRestore(j) ==
    /\ job[j].pc = "idle"
    /\ \E name \in {"c1", "c2"}, k \in {"k1", "k2"}, clone \in BOOLEAN :
          LET a == [job[j] EXCEPT !.op = "restore", !.name = name, !.id = k,
                                  !.clone = clone,
                                  !.miss = name \in containers /\ k \notin checkpoints[name]]
          IN  job' = [job EXCEPT ![j] =
                        IF name \notin containers \/ ~Lookup(checkpoints, name, k)
                        THEN [a EXCEPT !.pc = "done", !.res = "err"]
                        ELSE IF clone THEN [a EXCEPT !.pc = "cl_lock"]
                        ELSE [a EXCEPT !.pc = "rs_lock", !.tgt = name]]
    /\ UNCHANGED <<tvars, avars, bvars, pvars, ivars, cvars, containers, checkpoints, images, mu, activeContainers,
                   cgroup, run>>

\* cloneContainer: container.Lock()
CloneLock(j) ==
    /\ job[j].pc = "cl_lock"
    /\ mu[job[j].name] = None
    /\ mu' = [mu EXCEPT ![job[j].name] = j]
    /\ job' = [job EXCEPT ![j].pc = "cl_create"]
    /\ UNCHANGED <<tvars, avars, bvars, pvars, ivars, cvars, containers, checkpoints, images, activeContainers, cgroup, run>>

\* cloneContainer: daemon.Create of the copied configuration, then the
\* deferred container.Unlock()
CloneCreate(j) ==
    /\ job[j].pc = "cl_create"
    /\ mu' = [mu EXCEPT ![job[j].name] = None]
    /\ \E ok \in BOOLEAN :
          IF ok
          THEN /\ containers' = containers \cup {FreshId}
               /\ job' = [job EXCEPT ![j].pc = "cl_mkdir", ![j].tgt = FreshId,
                                     ![j].made = @ \cup {FreshId}]
          ELSE /\ job' = [job EXCEPT ![j] = Done(j, TRUE)]
               /\ UNCHANGED containers
    /\ UNCHANGED <<tvars, avars, bvars, pvars, ivars, cvars, checkpoints, images, activeContainers, cgroup, run>>

\* clone: newCheckpoint := *cp is a copy of every field of the source
\* checkpoint, CreatedAt included; then newCheckpoint.container = forContainer
clone(cp, forContainer) == [cp EXCEPT !.container = forContainer]

\* clone: the copy of the checkpoint, then os.MkdirAll(newImagePath, 0775)
CloneMkdir(j) ==
    /\ job[j].pc = "cl_mkdir"
    /\ LET i == <<job[j].tgt, job[j].id>>
           cp == Checkpoint(job[j].name, job[j].id)
       IN  \E ok \in BOOLEAN :
             IF ok
             THEN /\ images' = [images EXCEPT ![i] =
                                  IF @.exists THEN @ ELSE Dir({})]
                  /\ job' = [job EXCEPT ![j].pc = "cl_open", ![j].dirs = @ \cup {i},
                                        ![j].newCheckpoint =
                                            clone(cp, job[j].tgt)]
             ELSE /\ job' = [job EXCEPT ![j] = Done(j, TRUE)]
                  /\ UNCHANGED images
    /\ UNCHANGED <<tvars, avars, bvars, pvars, ivars, cvars, containers, checkpoints, mu, activeContainers, cgroup, run>>

\* clone: os.Open(imagePath) and dp.Readdirnames(-1) of the source directory
CloneOpen(j) ==
    /\ job[j].pc = "cl_open"
    /\ LET src == images[<<job[j].name, job[j].id>>]
       IN  job' = [job EXCEPT ![j] =
                     IF src.exists
                     THEN [job[j] EXCEPT !.pc = "cl_link", !.ents = src.names]
                     ELSE Done(j, TRUE)]
    /\ UNCHANGED <<tvars, avars, bvars, pvars, ivars, cvars, containers, checkpoints, images, mu, activeContainers,
                   cgroup, run>>

\* clone: one turn of the loop over dirents, os.Link(src, dest) for every
\* name but restore.pid; after the last one clone returns and
\* ContainerRestore calls container.Restore
CloneLink(j) ==
    /\ job[j].pc = "cl_link"
    /\ LET src == <<job[j].name, job[j].id>>
           dst == <<job[j].tgt, job[j].id>>
       IN  IF job[j].ents = {}
           THEN /\ job' = [job EXCEPT ![j].pc = "rs_lock"]
                /\ UNCHANGED images
           ELSE \E n \in job[j].ents, ok \in BOOLEAN :
                  IF n = PidFile
                  THEN /\ job' = [job EXCEPT ![j].ents = @ \ {n}]
                       /\ UNCHANGED images
                  ELSE IF ok /\ n \in images[src].names
                          /\ n \notin images[dst].names /\ images[dst].exists
                  THEN /\ images' = [images EXCEPT ![dst].names = @ \cup {n}]
                       /\ job' = [job EXCEPT ![j].ents = @ \ {n}]
                  ELSE /\ job' = [job EXCEPT ![j] = Done(j, TRUE)]
                       /\ UNCHANGED images
    /\ UNCHANGED <<tvars, avars, bvars, pvars, ivars, cvars, containers, checkpoints, mu, activeContainers, cgroup, run>>

\* container.Restore: take the lock of the container to restore
RestoreLock(j) ==
    /\ job[j].pc = "rs_lock"
    /\ mu[job[j].tgt] = None
    /\ mu' = [mu EXCEPT ![job[j].tgt] = j]
    /\ job' = [job EXCEPT ![j].pc = IF job[j].clone THEN "rs_patch" ELSE "rs_start"]
    /\ UNCHANGED <<tvars, avars, bvars, pvars, ivars, cvars, containers, checkpoints, images, activeContainers, cgroup, run>>

\* patchImage: run patch-criu on the image directory into a temporary
\* directory and rename its files back; the names in the image directory
\* stay as they are
patchImage(j) ==
    /\ job[j].pc = "rs_patch"
    /\ \E ok \in BOOLEAN :
          job' = [job EXCEPT ![j].pc = IF ok THEN "rs_start" ELSE "rs_fail"]
    /\ UNCHANGED <<tvars, avars, bvars, pvars, ivars, cvars, containers, checkpoints, images, mu, activeContainers,
                   cgroup, run>>

\* the call of driver.Restore for container c and image i, in a
\* goroutine of its own
NewRun(c, i) ==
    [IdleRun EXCEPT !.pc = "enter", !.kind = "restore", !.cid = c, !.img = i,
                    !.had = activeContainers[c] # None]

\* container.Restore: start the monitor, which calls driver.Restore
RestoreStart(j) ==
    /\ job[j].pc = "rs_start"
    /\ run' = [run EXCEPT ![j] = NewRun(job[j].tgt, <<job[j].tgt, job[j].id>>)]
    /\ job' = [job EXCEPT ![j].pc = "rs_wait", ![j].drv = TRUE]
    /\ UNCHANGED <<tvars, avars, bvars, pvars, ivars, cvars, containers, checkpoints, images, mu, activeContainers, cgroup>>

\* container.Restore returns when the start callback has run or
\* driver.Restore has returned, or after patchImage failed; the lock is
\* released
RestoreReturn(j) ==
    /\ \/ job[j].pc = "rs_fail"
       \/ job[j].pc = "rs_wait" /\ (run[j].cb \/ run[j].pc = "returned")
    /\ mu' = [mu EXCEPT ![job[j].tgt] = None]
    /\ job' = [job EXCEPT ![j] = Done(j, job[j].pc = "rs_fail" \/ ~run[j].cb)]
    /\ UNCHANGED <<tvars, avars, bvars, pvars, ivars, cvars, containers, checkpoints, images, activeContainers, cgroup, run>>

----------------------------------------------------------------------------
\* The native driver: run and the restore executer.

\* cleanContainer: delete(d.activeContainers, id) under the driver's mutex
cleanContainer(act, id) == [act EXCEPT ![id] = None]

\* run returns o to its caller
Return(r, o) == [run[r] EXCEPT !.pc = "returned", !.res = o]

\* run, driver.go:104-128: createContainer and the terminal, then the
\* entry of the container is put into d.activeContainers under d.Lock()
RunEnter(r) ==
    /\ run[r].pc = "enter"
    /\ \E ok \in BOOLEAN :
          IF ok
          THEN /\ activeContainers' = [activeContainers EXCEPT ![run[r].cid] = r]
               /\ run' = [run EXCEPT ![r].pc = "root"]
          ELSE /\ run' = [run EXCEPT ![r] = Return(r, Out(-1, TRUE))]
               /\ UNCHANGED activeContainers
    /\ UNCHANGED <<tvars, avars, bvars, pvars, ivars, cvars, containers, checkpoints, images, mu, cgroup, job>>

\* run, driver.go:135-138: createContainerRoot; its failure returns before
\* cleanContainer is deferred
RunCreateRoot(r) ==
    /\ run[r].pc = "root"
    /\ \E ok \in BOOLEAN :
          run' = [run EXCEPT ![r] = IF ok THEN [run[r] EXCEPT !.pc = "file"]
                                    ELSE Return(r, Out(-1, TRUE))]
    /\ UNCHANGED <<tvars, avars, bvars, pvars, ivars, cvars, containers, checkpoints, images, mu, activeContainers,
                   cgroup, job>>

\* run, driver.go:140-150: writeContainerFile, the two channels and the
\* goroutine that calls the executer
RunWriteFile(r) ==
    /\ run[r].pc = "file"
    /\ \E ok \in BOOLEAN :
          IF ok
          THEN /\ run' = [run EXCEPT ![r].pc = "select", ![r].epc = "criu"]
               /\ UNCHANGED activeContainers
          ELSE /\ run' = [run EXCEPT ![r] = Return(r, Out(-1, TRUE))]
               /\ activeContainers' = cleanContainer(activeContainers, run[r].cid)
    /\ UNCHANGED <<tvars, avars, bvars, pvars, ivars, cvars, containers, checkpoints, images, mu, cgroup, job>>

\* libcontainer.GetState(d.root/<id>), driver.go:160: the state file of
\* container c is there while namespaces.Exec is running its init process
StateFile(c) ==
    \E q \in Runs : run[q].kind = "exec" /\ run[q].cid = c /\ run[q].epc = "wait"

\* run, driver.go:152-166: select on execOutputChan and waitForStart; after
\* waitForStart, GetState and NotifyOnOOM, and when both succeed the
\* receive from oomKillNotification comes before the one from
\* execOutputChan
RunSelect(r) ==
    /\ run[r].pc = "select"
    /\ \/ /\ run[r].out.set
          /\ run' = [run EXCEPT ![r] = Return(r, run[r].out)]
          /\ activeContainers' = cleanContainer(activeContainers, run[r].cid)
       \/ /\ run[r].started
          /\ \E notify \in {n \in BOOLEAN : n => StateFile(run[r].cid)} :
                run' = [run EXCEPT ![r].pc = IF notify THEN "oom" ELSE "wait"]
          /\ UNCHANGED activeContainers
    /\ UNCHANGED <<tvars, avars, bvars, pvars, ivars, cvars, containers, checkpoints, images, mu, cgroup, job>>

\* run, driver.go:164: _, oomKill = <-oomKillNotification.  The channel
\* yields when a process of the container's memory cgroup is killed for
\* want of memory, and is closed when the cgroup is removed
RunOOM(r) ==
    /\ run[r].pc = "oom"
    /\ \/ ~cgroup[run[r].cid]
       \/ \E q \in Runs : run[q].cid = run[r].cid /\ run[q].proc = "alive"
    /\ run' = [run EXCEPT ![r].pc = "wait"]
    /\ UNCHANGED activeContainers
    /\ UNCHANGED <<tvars, avars, bvars, pvars, ivars, cvars, containers, checkpoints, images, mu, cgroup, job>>

\* run, driver.go:171-175: execOutput := <-execOutputChan, the wait for
\* the container to exit
RunWait(r) ==
    /\ run[r].pc = "wait"
    /\ run[r].out.set
    /\ run' = [run EXCEPT ![r] = Return(r, run[r].out)]
    /\ activeContainers' = cleanContainer(activeContainers, run[r].cid)
    /\ UNCHANGED <<tvars, avars, bvars, pvars, ivars, cvars, containers, checkpoints, images, mu, cgroup, job>>

\* exec: namespaces.Exec returns when the init process has exited
ExecInit(r) ==
    /\ run[r].kind = "exec" /\ run[r].epc = "wait"
    /\ run[r].proc = "zombie"
    /\ run' = [run EXCEPT ![r].proc = "reaped", ![r].epc = "returned",
                          ![r].out = Out(0, FALSE)]
    /\ UNCHANGED <<tvars, avars, bvars, pvars, ivars, cvars, containers, checkpoints, images, mu, activeContainers,
                   cgroup, job>>

\* the init process of a container exits
ProcExit(r) ==
    /\ run[r].proc = "alive"
    /\ run' = [run EXCEPT ![r].proc = "zombie"]
    /\ UNCHANGED <<tvars, avars, bvars, pvars, ivars, cvars, containers, checkpoints, images, mu, activeContainers,
                   cgroup, job>>

\* the deferred removal left out
KeepPidFile(imgs, i) == imgs

\* defer os.Remove(pidFile), driver.go:335
RemovePidFile(imgs, i) == [imgs EXCEPT ![i].names = @ \ {PidFile}]

\* the deferred function of driver.go:377-393: the cgroup directories of
\* the container are removed, which the kernel allows when no process is
\* in them
RemoveCgroups(cg, c, procs) ==
    [cg EXCEPT ![c] = IF procs = {} THEN FALSE ELSE @]

\* execRestore returns (code, err) from the return statement named path:
\* the deferred functions run, and the goroutine of run sends the result
\* to execOutputChan.  os.Remove of a cgroup directory that exists and is
\* empty may still fail for want of permission; its error is dropped
\* (driver.go:390) and the values returned are those of the return
\* statement.  The local variable pid ends with the call.
ExecReturn(r, rn, imgs, path, code, err) ==
    LET c == run[r].cid
        procs == {q \in Runs : (IF q = r THEN rn ELSE run[q]).cid = c
                               /\ (IF q = r THEN rn ELSE run[q]).proc = "alive"}
    IN  \E eperm \in {e \in BOOLEAN : e => (cgroup[c] /\ procs = {})} :
          /\ run' = [run EXCEPT ![r] = [rn EXCEPT !.epc = "returned", !.eret = path,
                                                  !.out = Out(code, err),
                                                  !.pid = None]]
          /\ images' = RemovePidFile(imgs, run[r].img)
          /\ cgroup' = IF eperm THEN cgroup ELSE RemoveCgroups(cgroup, c, procs)

\* execRestore, driver.go:395-402: c.ProcessConfig.Run() of criu restore.
\* criu exits with the restored process detached and its pid in the
\* pidfile, or fails
ExecCriu(r) ==
    /\ run[r].kind = "restore" /\ run[r].epc = "criu"
    /\ LET i == run[r].img
           rn == [run[r] EXCEPT !.launched = TRUE]
           withPid == [images EXCEPT ![i].names = @ \cup {PidFile}]
       IN  \/ \E wrote \in {w \in BOOLEAN : w => images[i].exists} :
                ExecReturn(r, rn, IF wrote THEN withPid ELSE images,
                           "criu", 1, TRUE)
           \/ /\ images[i].exists /\ ImageFiles \subseteq images[i].names
              /\ run' = [run EXCEPT ![r] = [rn EXCEPT !.epc = "attach",
                                                      !.proc = "alive",
                                                      !.steps = Append(@, "criu")]]
              /\ images' = withPid
              /\ cgroup' = [cgroup EXCEPT ![run[r].cid] = TRUE]
    /\ UNCHANGED <<tvars, avars, bvars, pvars, ivars, cvars, containers, checkpoints, mu, activeContainers, job>>

\* execRestore, driver.go:405-407: network.SetInterfaceMaster
ExecAttach(r) ==
    /\ run[r].kind = "restore" /\ run[r].epc = "attach"
    /\ \E ok \in BOOLEAN :
          IF ok
          THEN /\ run' = [run EXCEPT ![r].epc = "up",
                                     ![r].steps = Append(@, "attach")]
               /\ UNCHANGED <<images, cgroup>>
          ELSE ExecReturn(r, run[r], images, "attach", -1, TRUE)
    /\ UNCHANGED <<tvars, avars, bvars, pvars, ivars, cvars, containers, checkpoints, mu, activeContainers, job>>

\* execRestore, driver.go:408-410: network.InterfaceUp
ExecUp(r) ==
    /\ run[r].kind = "restore" /\ run[r].epc = "up"
    /\ \E ok \in BOOLEAN :
          IF ok
          THEN /\ run' = [run EXCEPT ![r].epc = "close",
                                     ![r].steps = Append(@, "up")]
               /\ UNCHANGED <<images, cgroup>>
          ELSE ExecReturn(r, run[r], images, "up", -1, TRUE)
    /\ UNCHANGED <<tvars, avars, bvars, pvars, ivars, cvars, containers, checkpoints, mu, activeContainers, job>>

\* the start callback called where waitForStart is closed, as exec does
\* (driver.go:95-100)
closeWaitForStartAndCall(rn) ==
    [rn EXCEPT !.epc = "readpid", !.started = TRUE, !.cb = TRUE,
               !.steps = Append(@, "callback")]

\* close(waitForStart), driver.go:412
closeWaitForStart(rn) == [rn EXCEPT !.epc = "readpid", !.started = TRUE]

\* execRestore, driver.go:412: close(waitForStart)
ExecCloseStart(r) ==
    /\ run[r].kind = "restore" /\ run[r].epc = "close"
    /\ run' = [run EXCEPT ![r] = closeWaitForStart(run[r])]
    /\ UNCHANGED <<tvars, avars, bvars, pvars, ivars, cvars, containers, checkpoints, images, mu, activeContainers,
                   cgroup, job>>

\* what restore.pid may hold: the decimal pid of the restored init
\* process, or bytes that are not a decimal number
PidFileContents == {"pid", "not a number"}

\* pid, _ := strconv.Atoi(string(sPid)), driver.go:418: the pid written in
\* the file, or 0 with an error that is dropped
Atoi(sPid) == IF sPid = "pid" THEN "init" ELSE "0"

\* execRestore, driver.go:413-428: read the pidfile, find the process (on
\* Unix os.FindProcess always succeeds) and call startCallback
ExecReadPid(r) ==
    /\ run[r].kind = "restore" /\ run[r].epc = "readpid"
    /\ \E ok \in BOOLEAN, sPid \in PidFileContents :
          IF ok /\ PidFile \in images[run[r].img].names
          THEN /\ run' = [run EXCEPT ![r].epc = "wait", ![r].cb = TRUE,
                                     ![r].pid = Atoi(sPid),
                                     ![r].steps = @ \o <<"pidfile", "callback">>]
               /\ UNCHANGED <<images, cgroup>>
          ELSE ExecReturn(r, run[r], images, "pidfile", -1, TRUE)
    /\ UNCHANGED <<tvars, avars, bvars, pvars, ivars, cvars, containers, checkpoints, mu, activeContainers, job>>

\* execRestore, driver.go:431-441: proc.Wait() returns the state of the
\* exited process, or an error
ExecWait(r) ==
    /\ run[r].kind = "restore" /\ run[r].epc = "wait"
    /\ \/ /\ run[r].proc = "zombie"
          /\ ExecReturn(r, [run[r] EXCEPT !.proc = "reaped"], images, "exit", 0, FALSE)
       \/ ExecReturn(r, run[r], images, "wait", -1, TRUE)
    /\ UNCHANGED <<tvars, avars, bvars, pvars, ivars, cvars, containers, checkpoints, mu, activeContainers, job>>

DaemonNext ==
    \/ \E j \in Jobs :
          \/ ContainerCheckpoint(j)
          \/ CheckpointLock(j)
          \/ DriverCheckpoint(j)
          \/ DriverCheckpointCriu(j)
          \/ CheckpointReturn(j)
          \/ ContainerRestore(j)
          \/ CloneLock(j)
          \/ CloneCreate(j)
          \/ CloneMkdir(j)
          \/ CloneOpen(j)
          \/ CloneLink(j)
          \/ RestoreLock(j)
          \/ patchImage(j)
          \/ RestoreStart(j)
          \/ RestoreReturn(j)
    \/ \E r \in Runs :
          \/ RunEnter(r)
          \/ RunCreateRoot(r)
          \/ RunWriteFile(r)
          \/ RunSelect(r)
          \/ RunOOM(r)
          \/ RunWait(r)
          \/ ExecInit(r)
          \/ ProcExit(r)
          \/ ExecCriu(r)
          \/ ExecAttach(r)
          \/ ExecUp(r)
          \/ ExecCloseStart(r)
          \/ ExecReadPid(r)
          \/ ExecWait(r)

----------------------------------------------------------------------------
\* ContainerInspect, inspect.go:63-74: the list of the container's
\* checkpoints.  The container's lock is held (inspect.go:17-18).

\* checkpoints in one registry
MaxCk == 3
\* CreatedAt is one of 1..MaxTime
MaxTime == 2

\* the n-th checkpoint put into the registry reg
Ck(reg, n) == [id |-> n, at |-> reg[n]]
NoCk == [id |-> 0, at |-> 0]

\* time.Time.Before
TimeBefore(t, u) == t < u

\* the registries: every checkpoint got the time of its creation, so
\* CreatedAt does not decrease in the order of insertion
Registries ==
    {r \in SeqsUpTo(1..MaxTime, MaxCk) :
        \A n \in 1..(Len(r) - 1) : r[n] <= r[n + 1]}

InspectInit ==
    /\ ireg \in Registries
    /\ irest = DOMAIN ireg
    /\ ilist = <<>>
    /\ icur = NoCk
    /\ ii = 0
    /\ ipc = "range"
    /\ ifirst = NoFirst

InspectIdle ==
    /\ ireg = <<>>
    /\ irest = {}
    /\ ilist = <<>>
    /\ icur = NoCk
    /\ ii = 0
    /\ ipc = "idle"
    /\ ifirst = NoFirst

\* for _, checkpoint := range container.Checkpoints: the next checkpoint,
\* in whatever order the map gives them; append and i := len(checkpoints)-1
InspectRange ==
    /\ ipc = "range"
    /\ \E k \in irest :
          /\ irest' = irest \ {k}
          /\ icur' = Ck(ireg, k)
          /\ ilist' = Append(ilist, Ck(ireg, k))
          /\ ii' = Len(ilist)
    /\ ipc' = "shift"
    /\ UNCHANGED <<tvars, avars, ireg, ifirst, bvars, pvars, dvars, cvars>>

\* i > 0 and checkpoints[i-1].CreatedAt is not before checkpoint.CreatedAt:
\* checkpoints[i], checkpoints[i-1] = checkpoints[i-1], checkpoint; i--
\* (ii is Go's i; the slice is indexed from 1 here)
InspectShift ==
    /\ ipc = "shift"
    /\ ii > 0
    /\ ~TimeBefore(ilist[ii].at, icur.at)
    /\ ilist' = [ilist EXCEPT ![ii + 1] = ilist[ii], ![ii] = icur]
    /\ ii' = ii - 1
    /\ UNCHANGED <<tvars, avars, ireg, irest, icur, ipc, ifirst, bvars, pvars, dvars, cvars>>

\* the inner loop ends: i = 0, or the break
InspectBreak ==
    /\ ipc = "shift"
    /\ IF ii = 0 THEN TRUE ELSE TimeBefore(ilist[ii].at, icur.at)
    /\ ipc' = "range"
    /\ UNCHANGED <<tvars, avars, ireg, irest, ilist, icur, ii, ifirst, bvars, pvars, dvars, cvars>>

\* the range loop is over: out.SetJson("Checkpoints", checkpoints)
InspectReturn ==
    /\ ipc = "range"
    /\ irest = {}
    /\ ipc' = "done"
    /\ UNCHANGED <<tvars, avars, ireg, irest, ilist, icur, ii, ifirst, bvars, pvars, dvars, cvars>>

\* ContainerInspect is called once more on the same registry
InspectAgain ==
    /\ ipc = "done"
    /\ ~ifirst.set
    /\ ifirst' = [set |-> TRUE, list |-> ilist]
    /\ irest' = DOMAIN ireg
    /\ ilist' = <<>>
    /\ icur' = NoCk
    /\ ii' = 0
    /\ ipc' = "range"
    /\ UNCHANGED <<tvars, avars, ireg, bvars, pvars, dvars, cvars>>

InspectNext ==
    \/ InspectRange
    \/ InspectShift
    \/ InspectBreak
    \/ InspectReturn
    \/ InspectAgain

----------------------------------------------------------------------------
\* ContainerCheckpoint.clone (part_002:43-78) and patchImage (part_002:80-111)
\* on the files: "A" is the image directory of the source checkpoint, "B"
\* the image directory of the clone in the new container, "T" the temporary
\* directory of patchImage.

\* the variables of the patch-criu process but the file system
prun == <<ppc, pargs, pi, psrc, pdst, pexit, prmfail, pruns, pdata, pold, pnew,
          prepl, pret, pbefore, pwrote, pdump, pfirst>>

\* Readdirnames: the names in directory d
Names(F, d) == {n \in Files : F.fs[d][n] # NoIno}

\* a copy of the file instead of a link to it
OsLinkCopy(F, sd, dd, n) ==
    CreateWrite(F, dd, n, F.ino[F.fs[sd][n]], TRUE, {})

\* os.Link(src, dest): dest becomes one more name of the inode of src
OsLink(F, sd, dd, n) == [F EXCEPT !.fs[dd][n] = F.fs[sd][n]]

\* the content written into the file that the new path names
OsRenameInto(F, sd, dd, n) ==
    Collect([CreateWrite(F, dd, n, F.ino[F.fs[sd][n]], TRUE, {})
                EXCEPT !.fs[sd][n] = NoIno])

\* os.Rename(oldpath, newpath): the new path names the inode of the old
\* path, whatever it named before, and the old path is gone
OsRename(F, sd, dd, n) ==
    Collect([F EXCEPT !.fs[dd][n] = F.fs[sd][n], !.fs[sd][n] = NoIno])

\* the ':' of a MAC address as a character of a mac= value
Colon == 17
\* NetworkSettings.MacAddress and NetworkSettings.IPAddress of the new
\* container
TargetMac == <<0, 2, Colon, 0, 3>>
TargetIps == AddrPool \ {a1}

\* "A" holds img, and restore.pid while a restore of the source checkpoint
\* is under way
CloneLayout(img, pid) ==
    LET L == Layout(img, "empty")
    IN  IF pid
        THEN [fs |-> [L.fs EXCEPT !["A"][PidFile] = FileNo(PidFile)],
              ino |-> [L.ino EXCEPT ![FileNo(PidFile)] = Raw(<<1>>)]]
        ELSE L

CloneInit ==
    /\ \E img \in Images, pid \in BOOLEAN :
          /\ fs = CloneLayout(img, pid).fs
          /\ ino = CloneLayout(img, pid).ino
    /\ PatchIdle
    /\ cpc = "mkdir"
    /\ cents = {}

CloneIdle ==
    /\ cpc = "idle"
    /\ cents = {}

\* clone: os.MkdirAll(newImagePath, 0775)
cloneMkdirAll ==
    /\ cpc = "mkdir"
    /\ \E ok \in BOOLEAN : cpc' = IF ok THEN "open" ELSE "err"
    /\ UNCHANGED <<tvars, avars, cents, bvars, pvars, dvars, ivars>>

\* clone: os.Open(imagePath) and dp.Readdirnames(-1)
cloneReaddirnames ==
    /\ cpc = "open"
    /\ \E ok \in BOOLEAN :
          IF ok THEN cpc' = "link" /\ cents' = Names(FS, "A")
          ELSE cpc' = "err" /\ UNCHANGED cents
    /\ UNCHANGED <<tvars, avars, bvars, pvars, dvars, ivars>>

\* clone: one turn of the loop over dirents; restore.pid is passed over,
\* every other name is linked
cloneOsLink ==
    /\ cpc = "link"
    /\ \E n \in cents, ok \in BOOLEAN :
          IF n = PidFile
          THEN /\ cents' = cents \ {n}
               /\ UNCHANGED <<cpc, fs, ino>>
          ELSE IF ok /\ fs["A"][n] # NoIno /\ fs["B"][n] = NoIno
          THEN /\ fs' = OsLink(FS, "A", "B", n).fs
               /\ ino' = OsLink(FS, "A", "B", n).ino
               /\ cents' = cents \ {n}
               /\ UNCHANGED cpc
          ELSE /\ cpc' = "err"
               /\ UNCHANGED <<cents, fs, ino>>
    /\ UNCHANGED <<tvars, avars, prun, bvars, dvars, ivars>>

\* clone: return &newCheckpoint, nil
cloneReturn ==
    /\ cpc = "link"
    /\ cents = {}
    /\ cpc' = "cloned"
    /\ UNCHANGED <<tvars, avars, cents, bvars, pvars, dvars, ivars>>

\* patchImage: ioutil.TempDir, then exec.Command("patch-criu", imagePath,
\* tmpdir, "ip="+IPAddress, "mac="+MacAddress without its colons)
patchImageCommand ==
    /\ cpc = "cloned"
    /\ \E ok \in BOOLEAN :
          IF ok
          THEN /\ cpc' = "patch"
               /\ \E ip \in TargetIps, rmf \in BOOLEAN :
                     Start(<<DIp(IpV4(ip)),
                             DMac(StringsReplace(TargetMac, <<Colon>>, <<>>))>>,
                           "B", "T", rmf)
               /\ UNCHANGED pfirst
          ELSE /\ cpc' = "err"
               /\ UNCHANGED pvars
    /\ UNCHANGED <<tvars, avars, cents, bvars, dvars, ivars>>

\* patchImage: cmd.CombinedOutput() has returned; a non-zero exit status
\* is an error, otherwise os.Open(tmpdir) and dp.Readdirnames(-1)
patchImageOutput ==
    /\ cpc = "patch"
    /\ ppc = "exited"
    /\ IF pexit # 0
       THEN cpc' = "err" /\ UNCHANGED cents
       ELSE \E ok \in BOOLEAN :
              IF ok THEN cpc' = "rename" /\ cents' = Names(FS, "T")
              ELSE cpc' = "err" /\ UNCHANGED cents
    /\ UNCHANGED <<tvars, avars, bvars, pvars, dvars, ivars>>

\* patchImage: one turn of the loop over dirents,
\* os.Rename(tmpdir/name, imagePath/name)
patchImageRename ==
    /\ cpc = "rename"
    /\ \E n \in cents, ok \in BOOLEAN :
          IF ok
          THEN /\ fs' = OsRename(FS, "T", "B", n).fs
               /\ ino' = OsRename(FS, "T", "B", n).ino
               /\ cents' = cents \ {n}
               /\ UNCHANGED cpc
          ELSE /\ cpc' = "err"
               /\ UNCHANGED <<cents, fs, ino>>
    /\ UNCHANGED <<tvars, avars, prun, bvars, dvars, ivars>>

\* patchImage: return nil
patchImageReturn ==
    /\ cpc = "rename"
    /\ cents = {}
    /\ cpc' = "ok"
    /\ UNCHANGED <<tvars, avars, cents, bvars, pvars, dvars, ivars>>

\* the clone, and of patch-criu what the command line of patchImage reaches
CloneNext ==
    \/ cloneMkdirAll
    \/ cloneReaddirnames
    \/ cloneOsLink
    \/ cloneReturn
    \/ patchImageCommand
    \/ MainIp
    \/ IpRewriteBytes
    \/ IpIfaddrDone
    \/ IpRouteDone
    \/ MainMac
    \/ MainExit
    \/ patchImageOutput
    \/ patchImageRename
    \/ patchImageReturn

----------------------------------------------------------------------------
\* driver.Checkpoint, driver.go:305-323: the arguments of criu dump.

\* paths on the host and in the container that a volume may join
HostPaths == {"/h1", "/h2", "/h3"}
GuestPaths == {"/g1", "/g2"}

\* the values of checkpoint.ImagePath, c.ContainerPid and c.Rootfs
ImagePath == "ImagePath"
ContainerPid == "ContainerPid"
Rootfs == "Rootfs"

\* the four system files, mapped to themselves
SystemMounts ==
    <<"/etc/resolv.conf:/etc/resolv.conf", "/etc/hosts:/etc/hosts",
      "/etc/hostname:/etc/hostname", "/.dockerinit:/.dockerinit">>

ExtMountMap(m) == <<"--ext-mount-map", m>>

\* hostPath+":"+guestPath
VolumeMount(hostPath, guestPath) == hostPath \o ":" \o guestPath

\* cmdArgs := []string{...}, driver.go:305-319
DumpArgs ==
    <<"dump", "-v4", "-o", "/dev/stdout", "--manage-cgroups", "--evasive-devices">>
    \o ExtMountMap(SystemMounts[1]) \o ExtMountMap(SystemMounts[2])
    \o ExtMountMap(SystemMounts[3]) \o ExtMountMap(SystemMounts[4])
    \o <<"-D", ImagePath, "-t", ContainerPid, "--root", Rootfs>>

\* checkpoint.Volumes of a container: any map from some host paths
VolumeMaps == UNION {[hs -> GuestPaths] : hs \in SUBSET HostPaths}

DumpInit ==
    /\ Volumes \in VolumeMaps
    /\ vrest = DOMAIN Volumes
    /\ cmdArgs = DumpArgs
    /\ apc = "range"

DumpIdle ==
    /\ Volumes = <<>>
    /\ vrest = {}
    /\ cmdArgs = <<>>
    /\ apc = "idle"

\* for hostPath, guestPath := range checkpoint.Volumes { cmdArgs =
\* append(cmdArgs, "--ext-mount-map", hostPath+":"+guestPath) }; the
\* order of a range over a map is not specified
CheckpointRange ==
    /\ apc = "range"
    /\ \E hostPath \in vrest :
          /\ cmdArgs' = cmdArgs \o ExtMountMap(VolumeMount(hostPath, Volumes[hostPath]))
          /\ vrest' = vrest \ {hostPath}
    /\ UNCHANGED <<tvars, Volumes, apc, bvars, pvars, dvars, ivars, cvars>>

\* exec.Command("criu", cmdArgs...).CombinedOutput()
CheckpointCommand ==
    /\ apc = "range"
    /\ vrest = {}
    /\ apc' = "done"
    /\ UNCHANGED <<tvars, Volumes, vrest, cmdArgs, bvars, pvars, dvars, ivars, cvars>>

DumpNext == CheckpointRange \/ CheckpointCommand

----------------------------------------------------------------------------
\* d.activeContainers and the driver's mutex: the calls of run, which
\* insert an entry and delete it through cleanContainer, and the calls of
\* Checkpoint, Pause and Unpause, which look an entry up.

\* calls of driver.run
TableRuns == {"run1", "run2"}
\* calls of driver.Checkpoint, driver.Pause and driver.Unpause
TableReaders == {"Checkpoint", "Pause", "Unpause"}
TableThreads == TableRuns \cup TableReaders
TableIds == {"c1", "c2"}

TableInit ==
    /\ tmu = None
    /\ ttab = {}
    /\ tpc = [t \in TableThreads |-> "idle"]
    /\ tid = [t \in TableThreads |-> None]
    /\ tout = [t \in TableReaders |-> None]
    /\ traced = {}

TableIdle ==
    /\ tmu = None
    /\ ttab = {}
    /\ tpc = [t \in TableThreads |-> "off"]
    /\ tid = [t \in TableThreads |-> None]
    /\ tout = [t \in TableReaders |-> None]
    /\ traced = {}

\* the calls that are writing the map
Writing == {w \in TableRuns : tpc[w] \in {"insert", "delete"}}
\* the calls that are reading the map
Reading == {t \in TableReaders : tpc[t] = "reading"}

\* run, driver.go:123-124: d.Lock(), and the assignment
\* d.activeContainers[c.ID] = ... begins
TableInsertBegin(t) ==
    /\ tpc[t] = "idle" /\ tmu = None
    /\ \E c \in TableIds : tid' = [tid EXCEPT ![t] = c]
    /\ tmu' = t
    /\ tpc' = [tpc EXCEPT ![t] = "insert"]
    /\ traced' = traced \cup Reading
    /\ UNCHANGED <<ttab, tout, bvars, pvars, dvars, ivars, cvars, avars>>

\* run, driver.go:124-128: the assignment is done, d.Unlock()
TableInsertEnd(t) ==
    /\ tpc[t] = "insert"
    /\ ttab' = ttab \cup {tid[t]}
    /\ tmu' = None
    /\ tpc' = [tpc EXCEPT ![t] = "running"]
    /\ UNCHANGED <<tid, tout, traced, bvars, pvars, dvars, ivars, cvars, avars>>

\* cleanContainer, driver.go:284-285: d.Lock(), and
\* delete(d.activeContainers, id) begins
TableDeleteBegin(t) ==
    /\ tpc[t] = "running" /\ tmu = None
    /\ tmu' = t
    /\ tpc' = [tpc EXCEPT ![t] = "delete"]
    /\ traced' = traced \cup Reading
    /\ UNCHANGED <<ttab, tid, tout, bvars, pvars, dvars, ivars, cvars, avars>>

\* cleanContainer, driver.go:285-286: the delete is done, d.Unlock()
TableDeleteEnd(t) ==
    /\ tpc[t] = "delete"
    /\ ttab' = ttab \ {tid[t]}
    /\ tmu' = None
    /\ tpc' = [tpc EXCEPT ![t] = "returned"]
    /\ UNCHANGED <<tid, tout, traced, bvars, pvars, dvars, ivars, cvars, avars>>

\* Checkpoint (driver.go:300), Pause (189) and Unpause (201): the lookup
\* d.activeContainers[c.ID] begins; none of them takes d.Lock()
TableRead(t) ==
    /\ tpc[t] = "idle"
    /\ \E c \in TableIds : tid' = [tid EXCEPT ![t] = c]
    /\ tpc' = [tpc EXCEPT ![t] = "reading"]
    /\ traced' = IF Writing = {} THEN traced ELSE traced \cup {t}
    /\ UNCHANGED <<tmu, ttab, tout, bvars, pvars, dvars, ivars, cvars, avars>>

\* what a lookup may give: the entry or nil; a lookup that ran while the
\* map was written is a data race, which may give either or end the
\* program ("concurrent map read and map write")
MapLookup(tab, c, raced) ==
    IF raced THEN {"entry", "nil", "fault"}
    ELSE {IF c \in tab THEN "entry" ELSE "nil"}

\* the lookup is done: active == nil is tested
TableReadReturn(t) ==
    /\ tpc[t] = "reading"
    /\ \E v \in MapLookup(ttab, tid[t], t \in traced) : tout' = [tout EXCEPT ![t] = v]
    /\ tpc' = [tpc EXCEPT ![t] = "done"]
    /\ UNCHANGED <<tmu, ttab, tid, traced, bvars, pvars, dvars, ivars, cvars, avars>>

TableNext ==
    \/ \E t \in TableRuns :
          \/ TableInsertBegin(t)
          \/ TableInsertEnd(t)
          \/ TableDeleteBegin(t)
          \/ TableDeleteEnd(t)
    \/ \E t \in TableReaders :
          \/ TableRead(t)
          \/ TableReadReturn(t)

----------------------------------------------------------------------------
\* Specifications.

\* no patch-criu process, one image directory
PatchOff ==
    /\ fs = Layout(ImageOf(NetGood, RawOne, RawOne, CgGood), "empty").fs
    /\ ino = Layout(ImageOf(NetGood, RawOne, RawOne, CgGood), "empty").ino
    /\ PatchIdle

\* rewriteBytes alone
InitBytes ==
    BytesInit /\ PatchOff /\ DaemonIdle /\ InspectIdle /\ CloneIdle /\ DumpIdle /\ TableIdle

SpecBytes == InitBytes /\ [][BytesNext]_vars

\* a call of rewriteBytes keeps running while it can take a step
SpecBytesFair == SpecBytes /\ WF_vars(BytesNext)

\* the patch-criu process alone
InitPatch ==
    PatchInit /\ BytesIdle /\ DaemonIdle /\ InspectIdle /\ CloneIdle /\ DumpIdle /\ TableIdle

SpecPatch == InitPatch /\ [][PatchNext]_vars

\* the daemon and the driver
Init ==
    DaemonInit /\ BytesIdle /\ PatchOff /\ InspectIdle /\ CloneIdle /\ DumpIdle /\ TableIdle

\* one container's registry and its enumerations
InitInspect ==
    InspectInit /\ BytesIdle /\ PatchOff /\ DaemonIdle /\ CloneIdle /\ DumpIdle /\ TableIdle

SpecInspect == InitInspect /\ [][InspectNext]_vars

\* one clone of a checkpoint: its files are linked and rewritten
InitClone ==
    CloneInit /\ BytesIdle /\ DaemonIdle /\ InspectIdle /\ DumpIdle /\ TableIdle

SpecClone == InitClone /\ [][CloneNext]_vars

\* the command line of one criu dump
InitDump ==
    DumpInit /\ BytesIdle /\ PatchOff /\ DaemonIdle /\ InspectIdle /\ CloneIdle
             /\ TableIdle

SpecDump == InitDump /\ [][DumpNext]_vars

\* the threads that use d.activeContainers
InitTable ==
    TableInit /\ BytesIdle /\ PatchOff /\ DaemonIdle /\ InspectIdle /\ CloneIdle
              /\ DumpIdle

SpecTable == InitTable /\ [][TableNext]_vars

Spec == Init /\ [][DaemonNext]_vars

----------------------------------------------------------------------------
\* Properties of patch-criu.

\* the dump utility printed only addresses of its input, and os.Remove works
NormalRun == pdump \in {"none", "in"} /\ ~prmfail

\* the directive that returned an error is still the current one
Failed(key) == pret = "err" /\ ppc = "exited" /\ Cur.key = key

SameAsBefore(n) ==
    /\ fs[pdst][n] = pbefore.ents[n]
    /\ DirView(FS, pdst)[n] = pbefore.view[n]

\* C6: a directive that returns an error leaves every destination file it
\* targets with the existence and the content it had when the directive began.
C6_DirectiveAtomic ==
    (pret = "err" /\ NormalRun) =>
        \A n \in Targets(Cur.key) : DirView(FS, pdst)[n] = pbefore.view[n]

\* the three ways C6 fails: ip= with the old address in ifaddr-8.img only,
\* mac= and cgroup= with an error in the middle of the stream
C6_IpHalfWritten ==
    /\ Failed("ip") /\ NormalRun
    /\ DirView(FS, pdst)["ifaddr-8.img"] # pbefore.view["ifaddr-8.img"]
    /\ DirView(FS, pdst)["route-8.img"] = pbefore.view["route-8.img"]

C6_MacHalfWritten ==
    /\ Failed("mac") /\ NormalRun
    /\ DirView(FS, pdst)["netdev-8.img"] # pbefore.view["netdev-8.img"]

C6_CgroupHalfWritten ==
    /\ Failed("cgroup") /\ NormalRun
    /\ DirView(FS, pdst)["cgroup.img"] # pbefore.view["cgroup.img"]

\* C7: when a directive fails the program exits with a non-zero status,
\* no later directive is applied, and the files written by the earlier
\* successful directives of the run are as those directives wrote them.
C7_FailureKeepsEarlierWrites ==
    /\ pret = "err" => ppc = "exited" /\ pexit # 0
    /\ (ppc = "exited" /\ pexit # 0 /\ NormalRun) =>
          \A n \in Files :
              pwrote[n] # Untouched => DirView(FS, pdst)[n] = pwrote[n]

\* C7, the part about the order and the exit: directives are taken one by
\* one in command-line order, and a process that has exited applies nothing
C7_InOrderThenStops ==
    [][/\ (ppc = "main" /\ ppc' = "main" /\ pruns' = pruns) => pi' = pi + 1
       /\ (ppc = "exited" /\ pruns' = pruns) => UNCHANGED <<fs, ino, pi, pexit>>
       /\ (pret' = "err" /\ pruns' = pruns) => (ppc' = "exited" /\ pexit' = 1 /\ pi' = pi)]_vars

\* C8: an ip= rewrite whose discovered old address does not occur in the
\* bytes of ifaddr-8.img fails with an error, and ifaddr-8.img and
\* route-8.img of the destination are neither removed, created nor written.
C8_MissLeavesDestination ==
    (pdump = "out" /\ ppc # "ip_ifaddr") =>
        /\ Failed("ip")
        /\ pexit = 1
        /\ SameAsBefore("ifaddr-8.img")
        /\ SameAsBefore("route-8.img")

\* C8's case with a destination that holds both files
C8_MissReached ==
    /\ pdump = "out" /\ Failed("ip")
    /\ fs[pdst]["ifaddr-8.img"] # NoIno
    /\ fs[pdst]["route-8.img"] # NoIno
    /\ psrc # pdst

\* the run re-applies one successful mac= or ip= directive to the directory
\* the first application wrote
SecondApplication ==
    /\ pfirst.set /\ pfirst.exit = 0
    /\ Len(pargs) = 1 /\ pargs[1].key \in {"mac", "ip"}

\* C10: the second application of a mac= or ip= directive to an
\* already-rewritten directory returns: no iteration of its rewriteBytes
\* loop finds the old address and leaves the data as they were (the loop
\* reads nothing else, so such an iteration is repeated for ever).
C10_SecondApplicationReturns ==
    (SecondApplication /\ NormalRun /\ ppc \in {"ip_ifaddr", "ip_route"}) =>
        LET r == RewriteBytesIter(pdata, pold, pnew, prepl)
        IN  r.found => r.data # pdata

\* C10: ... and either reports an error or leaves the files as the first
\* application left them
C10_SecondApplicationNoOp ==
    (SecondApplication /\ ppc = "exited" /\ NormalRun /\ pexit = 0) =>
        \A n \in Targets(pargs[1].key) : DirView(FS, pdst)[n] = pfirst.view[n]

\* the directive that returned last, without an error
Last == pargs[pi - 1]
Succeeded(key) == pret = "ok" /\ pi > 1 /\ Last.key = key

\* C11: a mac= rewrite that succeeds leaves in the destination a
\* netdev-8.img with the magic header of the source and as many records as
\* the source, in the same order; the record of a device named eth0 has the
\* hex-decoded value of the directive as its address and its name kept,
\* every other record is the source's record.
C11_MacRewritesEth0Only ==
    (Succeeded("mac") /\ NormalRun) =>
        LET s == pbefore.src["netdev-8.img"]
            o == DirView(FS, pdst)["netdev-8.img"]
        IN  /\ s.k = "stream" /\ o.k = "stream"
            /\ o.hdr = s.hdr /\ o.tail = "eof" /\ ~o.stale
            /\ Len(o.recs) = Len(s.recs)
            /\ \A i \in 1..Len(s.recs) :
                   IF s.recs[i].name = "eth0"
                   THEN /\ o.recs[i].name = "eth0"
                        /\ ~HexDecode(Last.mac).err
                        /\ o.recs[i].addr = HexDecode(Last.mac).bytes
                   ELSE o.recs[i] = s.recs[i]

\* a mac= rewrite succeeded on a stream with a device named eth0 whose
\* address it changed, and a device with another name
C11_Eth0Rewritten ==
    /\ Succeeded("mac") /\ NormalRun
    /\ LET s == pbefore.src["netdev-8.img"]
           o == DirView(FS, pdst)["netdev-8.img"]
       IN  /\ \E i \in 1..Len(s.recs) :
                  s.recs[i].name = "eth0" /\ o.recs[i].addr # s.recs[i].addr
           /\ \E i \in 1..Len(s.recs) : s.recs[i].name # "eth0"

\* out is s with every (leftmost, non-overlapping) occurrence of a
\* non-empty old replaced by new and every other character kept, in order
Substituted(s, old, new, out) ==
    LET occ == Occ(s, old)
        d == Len(new) - Len(old)
        off(i) == Cardinality({p \in occ : p < i}) * d
    IN  /\ Len(out) = Len(s) + Cardinality(occ) * d
        /\ \A p \in occ : SubSeq(out, p + off(p) + 1, p + off(p) + Len(new)) = new
        /\ \A i \in 1..Len(s) :
               ~Covered(occ, Len(old), i) => out[i + off(i)] = s[i]
        /\ occ = {} => out = s

RECURSIVE DirSubstituted(_, _, _, _)
\* b is the tree a with the same shape and every directory name substituted
DirSubstituted(a, b, old, new) ==
    /\ Substituted(a.name, old, new, b.name)
    /\ Len(b.children) = Len(a.children)
    /\ \A i \in 1..Len(a.children) :
           DirSubstituted(a.children[i], b.children[i], old, new)

\* C12: a cgroup= rewrite that succeeds leaves in the destination a
\* cgroup.img with as many records as the source, in the same order, every
\* record with the same sets, ctls, controllers and directory trees, and in
\* it every path of a (set, ctl) pair and every directory name at every
\* depth has each occurrence of the old pattern replaced by the new one;
\* a string without the old pattern is unchanged.
C12_CgroupRewritesEveryPath ==
    (Succeeded("cgroup") /\ NormalRun) =>
        LET s == pbefore.src["cgroup.img"]
            o == DirView(FS, pdst)["cgroup.img"]
            old == Last.old
            new == Last.new
        IN  /\ s.k = "stream" /\ o.k = "stream"
            /\ o.hdr = s.hdr /\ o.tail = "eof" /\ ~o.stale
            /\ Len(o.recs) = Len(s.recs)
            /\ \A i \in 1..Len(s.recs) :
                   LET a == s.recs[i]
                       b == o.recs[i]
                   IN  /\ Len(b.sets) = Len(a.sets)
                       /\ \A x \in 1..Len(a.sets) :
                              /\ Len(b.sets[x]) = Len(a.sets[x])
                              /\ \A y \in 1..Len(a.sets[x]) :
                                     Substituted(a.sets[x][y], old, new, b.sets[x][y])
                       /\ Len(b.ctrls) = Len(a.ctrls)
                       /\ \A x \in 1..Len(a.ctrls) :
                              /\ Len(b.ctrls[x]) = Len(a.ctrls[x])
                              /\ \A y \in 1..Len(a.ctrls[x]) :
                                     DirSubstituted(a.ctrls[x][y], b.ctrls[x][y], old, new)

\* a cgroup= rewrite with patterns of different lengths succeeded on a
\* stream of two records whose trees hold the old pattern below the top
C12_NestedRewritten ==
    /\ Succeeded("cgroup") /\ NormalRun
    /\ Len(Last.old) # Len(Last.new)
    /\ LET s == pbefore.src["cgroup.img"]
           o == DirView(FS, pdst)["cgroup.img"]
       IN  /\ Len(s.recs) = 2
           /\ \E i \in 1..2 :
                  LET a == s.recs[i].ctrls[1][1]
                      b == o.recs[i].ctrls[1][1]
                  IN  /\ Occ(a.children[1].name, Last.old) # {}
                      /\ b.children[1].name # a.children[1].name

\* the stream directive that returned last, with or without an error
StreamReturned(key) ==
    /\ key \in {"mac", "cgroup"}
    /\ Succeeded(key) \/ (Failed(key) /\ Cur.eq)
ReturnedDirective == IF pret = "ok" THEN Last ELSE Cur

\* every record of stream s passes through directive d without an error
RecordsPass(s, d) == \A i \in 1..Len(s.recs) : ~RewriteRec(s.recs[i], d).err

\* C26: for netdev-8.img and cgroup.img, a source that ends exactly after a
\* complete record makes the rewrite return nil (when every record decodes
\* and encodes), and a source that ends inside the 4-byte header, inside
\* the 4-byte length prefix of a record, or before the declared length of a
\* record's body has been read makes the rewrite return an error.
C26_EofOnlyAfterCompleteRecord ==
    \A key \in {"mac", "cgroup"} :
        LET s == pbefore.src[StreamFile(key)]
            d == ReturnedDirective
        IN  (StreamReturned(key) /\ NormalRun /\ s.k = "stream" /\ ~s.stale) =>
                /\ (s.hdr = "short" \/ s.tail \in {"shortlen", "shortbody"})
                       => pret = "err"
                /\ (s.hdr # "short" /\ s.tail = "eof" /\ RecordsPass(s, d)
                       /\ (key = "cgroup" => d.colon))
                       => pret = "ok"

\* a mac= rewrite returned an error on a source whose records all pass and
\* which ends inside a length prefix
C26_ShortLengthPrefixFailed ==
    /\ Failed("mac") /\ Cur.eq /\ NormalRun
    /\ LET s == pbefore.src["netdev-8.img"]
       IN  /\ s.k = "stream" /\ s.hdr # "short" /\ s.tail = "shortlen"
           /\ Len(s.recs) >= 1 /\ RecordsPass(s, Cur)

\* the destination entry n is the inode it was before the directive, whose
\* removal failed
WroteThrough(n) ==
    prmfail /\ pbefore.ents[n] # NoIno /\ fs[pdst][n] = pbefore.ents[n]

\* C27: after a directive that succeeds, every destination file it targets
\* holds exactly the bytes that were written, with no byte of an earlier
\* destination file after them, also when that file was longer or its
\* removal failed; and the bytes were not written into the inode of a
\* destination file that existed before.
C27_DestinationIsWhatWasWritten ==
    \A key \in {"mac", "cgroup", "ip"} :
        Succeeded(key) =>
            \A n \in Targets(key) :
                LET o == DirView(FS, pdst)[n]
                IN  /\ o.k = "stream" => ~o.stale
                    /\ ~WroteThrough(n)

RECURSIVE rewriteBytesData(_, _, _, _)
\* data after rewriteBytes(data, from, to) when the loop ends within n turns
rewriteBytesData(data, from, to, n) ==
    LET r == RewriteBytesIter(data, from, to, 0)
    IN  IF ~r.found \/ n = 0 THEN data
        ELSE rewriteBytesData(r.data, from, to, n - 1)

\* C28: what a directive leaves in the destination directory is decided by
\* the files of the source directory as they were when it began and by the
\* directive, in the same way whether the destination is the source
\* directory or another one: for mac= and cgroup=, the records the copy
\* loop gives for the source file; for ip=, ifaddr-8.img and route-8.img of
\* the source with one and the same old address replaced.
C28_InPlaceSameAsCopy ==
    NormalRun =>
        /\ \A key \in {"mac", "cgroup"} :
               LET n == StreamFile(key)
                   s == pbefore.src[n]
               IN  (StreamReturned(key) /\ s.k = "stream"
                      /\ (key = "cgroup" => ReturnedDirective.colon)) =>
                       DirView(FS, pdst)[n] = CopyStream(s, ReturnedDirective, FALSE).out
        /\ Succeeded("ip") =>
               \E a \in AddrPool :
                   \A n \in Targets("ip") :
                       /\ pbefore.src[n].k = "raw"
                       /\ DirView(FS, pdst)[n] =
                             Raw(rewriteBytesData(pbefore.src[n].b, a, Last.ip.a,
                                                  2 ^ IntBits))

\* a mac= rewrite in place succeeded on a record whose size it changed
C28_InPlaceResized ==
    /\ Succeeded("mac") /\ NormalRun /\ psrc = pdst
    /\ LET s == pbefore.src["netdev-8.img"]
           o == DirView(FS, pdst)["netdev-8.img"]
       IN  \E i \in 1..Len(s.recs) : RecSize(o.recs[i]) # RecSize(s.recs[i])

----------------------------------------------------------------------------
\* Properties of the daemon and the driver.

\* jobs inside driver.Checkpoint for container c
CheckpointOps(c) ==
    {j \in Jobs : job[j].op = "checkpoint" /\ job[j].name = c
                  /\ job[j].pc \in {"ck_driver", "ck_criu"}}

\* calls of driver.Restore for container c whose executer has not yet
\* called the start callback or returned
RestoreOps(c) ==
    {r \in Jobs : run[r].kind = "restore" /\ run[r].cid = c
                  /\ run[r].pc \in {"enter", "root", "file", "select", "oom", "wait"}
                  /\ run[r].epc \in {"idle", "criu", "attach", "up", "close", "readpid"}}

\* jobs whose clone reads the image directory of a checkpoint of c
CloneOps(c) ==
    {j \in Jobs : job[j].op = "restore" /\ job[j].clone /\ job[j].name = c
                  /\ job[j].pc \in {"cl_open", "cl_link"}}

\* C1: at no time are two checkpoint or restore operations (driver
\* Checkpoint, driver Restore, a clone that reads the source container's
\* checkpoint) in progress on the same container.
C1_OneOperationPerContainer ==
    \A c \in Ids :
        Cardinality(CheckpointOps(c)) + Cardinality(RestoreOps(c))
            + Cardinality(CloneOps(c)) <= 1

\* C1's case with the freezer tool dumping the container while a clone links
\* the files of one of its checkpoints
C1_CloneDuringDump ==
    \E c \in Ids : \E j \in CheckpointOps(c) :
        job[j].pc = "ck_criu" /\ mu[c] = j /\ CloneOps(c) # {}

\* C2: a restore of a container that has an entry in d.activeContainers
\* when driver.Restore is called returns an error, and criu is never
\* launched for that call.
C2_RestoreOfActiveFails ==
    \A r \in Jobs :
        run[r].had =>
            /\ ~run[r].launched
            /\ run[r].pc = "returned" => run[r].res.err

\* C3: when a restore fails after criu has spawned the restored process
\* (bridge attach, interface up or pidfile read failed), the process has
\* been reaped when Restore returns.
C3_FailedRestoreReapsProcess ==
    \A r \in Jobs :
        (run[r].pc = "returned" /\ run[r].eret \in {"attach", "up", "pidfile"}) =>
            run[r].proc = "reaped"

\* C4: on every return path of execRestore, restore.pid of the image
\* directory is gone when the executer returns.
C4_PidFileRemoved ==
    [][\A r \in Jobs :
          (run[r].epc # "returned" /\ run'[r].epc = "returned") =>
              PidFile \notin images'[run[r].img].names]_vars

\* execRestore returned for a failed interface-up, after criu had written
\* the pidfile and spawned the process
C4_ReturnedAfterSpawn ==
    \E r \in Jobs :
        run[r].epc = "returned" /\ run[r].eret = "up" /\ run[r].proc # "none"

\* C5: ContainerRestore with a checkpoint id that the container does not
\* have fails, and has by then provisioned no container, created no image
\* directory and not called the driver.
C5_UnknownCheckpointFailsFirst ==
    \A j \in Jobs :
        job[j].miss =>
            /\ job[j].pc = "done" /\ job[j].res = "err"
            /\ job[j].made = {} /\ job[j].dirs = {} /\ ~job[j].drv

\* ContainerRestore of a clone was called with an unknown checkpoint id
C5_UnknownCheckpointAsked == \E j \in Jobs : job[j].miss /\ job[j].clone

\* C22: in a restore the cgroup directories of the container are gone when
\* criu restore is started, and no step removes them once the restored
\* process has been spawned.
C22_CgroupsRemovedBeforeCriu ==
    [][\A r \in Jobs :
          run'[r].kind = "restore" =>
              /\ (~run[r].launched /\ run'[r].launched) => ~cgroup[run'[r].cid]
              /\ (run[r].proc # "none" /\ cgroup[run'[r].cid])
                    => cgroup'[run'[r].cid]]_vars

\* C23: the cleanup of a restore skips a cgroup directory that does not
\* exist, and a directory that exists, holds no process and still cannot be
\* removed (EPERM) makes the restore fail: a restore that returns leaving
\* such a directory behind returns an error.
C23_DeniedRemovalFails ==
    [][\A r \in Jobs :
          (/\ run'[r].kind = "restore"
           /\ run[r].epc # "returned" /\ run'[r].epc = "returned"
           /\ cgroup[run'[r].cid] /\ cgroup'[run'[r].cid]
           /\ \A q \in Runs : run'[q].cid = run'[r].cid => run'[q].proc # "alive")
              => run'[r].out.err]_vars

\* C24: in a restore the start callback is called at most once, and only
\* after criu exited with success, the veth was attached to the bridge, the
\* veth was brought up and the pidfile was read, in this order; a restore
\* that returned because one of these steps failed has not called it.
C24_CallbackAfterAllSteps ==
    \A r \in Jobs :
        LET st == run[r].steps
            calls == {i \in 1..Len(st) : st[i] = "callback"}
        IN  /\ Cardinality(calls) <= 1
            /\ run[r].cb <=> calls # {}
            /\ \A i \in calls :
                   SubSeq(st, 1, i - 1) = <<"criu", "attach", "up", "pidfile">>
            /\ run[r].eret \in {"criu", "attach", "up", "pidfile"} => ~run[r].cb

\* the start callback was called, and the restored process has exited since
C24_CalledThenExited ==
    \E r \in Jobs : run[r].cb /\ run[r].epc = "returned" /\ run[r].eret = "exit"

\* C25: the start callback is never called with a pid that the pidfile
\* does not hold, in particular not with 0.
C25_CallbackPidFromPidFile ==
    \A r \in Jobs : (run[r].cb /\ run[r].epc = "wait") => run[r].pid = "init"

\* C31: a call of run whose executer was started returns, once, the exit
\* code and the error the executer sent, whichever of the two channels is
\* ready first at the select; and while the executer's result is in
\* execOutputChan, run is at a receive of that channel (the select or the
\* final receive), so that an error the executer returns after closing
\* waitForStart is returned by Restore without waiting for anything else,
\* such as the exit of the restored process.
C31_ResultReturnedWithoutWaiting ==
    \A r \in Jobs :
        run[r].kind = "restore" =>
            /\ (run[r].pc = "returned" /\ run[r].epc # "idle")
                   => (run[r].out.set /\ run[r].res = run[r].out)
            /\ (run[r].out.set /\ run[r].pc # "returned")
                   => run[r].pc \in {"select", "wait"}

\* C32: when run has returned, on whatever path (the failure of
\* createContainerRoot or of writeContainerFile included), the entry it put
\* into d.activeContainers is gone: every entry of the table belongs to a
\* call of run for that container id that is still in progress.
C32_EntryOnlyWhileRunning ==
    \A c \in Ids :
        activeContainers[c] # None =>
            /\ run[activeContainers[c]].cid = c
            /\ run[activeContainers[c]].pc \notin {"idle", "returned"}

\* C29: a restore with clone holds the lock of the new container while
\* clone links the files and while patchImage rewrites them.
C29_TargetLockedDuringClone ==
    \A j \in Jobs :
        (job[j].clone /\ job[j].pc \in {"cl_mkdir", "cl_open", "cl_link", "rs_patch"})
            => mu[job[j].tgt] = j

\* C16: a restore with clone that has returned an error before the restore
\* driver was called (the target directory could not be made, the source
\* directory could not be opened or listed, a file could not be linked, or
\* the rewriter failed) has left none of the image directories it made.
C16_FailedCloneRemovesTarget ==
    \A j \in Jobs :
        (job[j].pc = "done" /\ job[j].res = "err" /\ job[j].clone /\ ~job[j].drv)
            => \A i \in job[j].dirs : ~images[i].exists

\* C17: the checkpoint that clone has returned is bound to the new
\* container, has the id of the source checkpoint and a CreatedAt that is
\* not the CreatedAt of the source checkpoint.
C17_CloneHasNewTimestamp ==
    \A j \in Jobs :
        (job[j].clone /\ job[j].pc \in {"rs_lock", "rs_patch", "rs_start", "rs_wait"})
            => /\ job[j].newCheckpoint.container = job[j].tgt
               /\ job[j].newCheckpoint.ID = job[j].id
               /\ job[j].newCheckpoint.CreatedAt
                      # Checkpoint(job[j].name, job[j].id).CreatedAt

\* C20: while no job is at work on checkpoint k of container c, the image
\* directory of k exists exactly when k is in the registry of c.
C20_DirectoryIffRegistered ==
    \A c \in Ids, k \in CkIds :
        (\A j \in Jobs : job[j].pc \in {"idle", "done"}
                            \/ (job[j].id # k)
                            \/ (job[j].name # c /\ job[j].tgt # c))
            => (images[<<c, k>>].exists <=> k \in checkpoints[c])

----------------------------------------------------------------------------
\* Properties of ContainerInspect.

\* C13: the list of checkpoints that ContainerInspect returns is sorted by
\* creation time descending: no element is created earlier than the element
\* after it.
C13_NewestFirst ==
    ipc = "done" =>
        \A p \in 1..(Len(ilist) - 1) : ~TimeBefore(ilist[p].at, ilist[p + 1].at)

\* C14: two enumerations of the same registry return the same list, and
\* checkpoints of equal creation time appear in the order of insertion.
C14_StableOnTies ==
    ipc = "done" =>
        /\ ifirst.set => ilist = ifirst.list
        /\ \A p \in 1..Len(ilist) : \A q \in (p + 1)..Len(ilist) :
               ilist[p].at = ilist[q].at => ilist[p].id < ilist[q].id

----------------------------------------------------------------------------
\* Properties of the clone of a checkpoint.

\* C15: when clone has returned without an error, every entry of the source
\* image directory but restore.pid has a hard link in the target image
\* directory (the same inode under the same name), and the target directory
\* holds no restore.pid and nothing else.
C15_CloneLinksEveryFile ==
    cpc = "cloned" =>
        \A n \in Files :
            fs["B"][n] = IF n = PidFile THEN NoIno ELSE fs["A"][n]

\* a clone returned for a source directory that held image files and
\* restore.pid
C15_ClonedBesidePidFile ==
    /\ cpc = "cloned"
    /\ fs["A"][PidFile] # NoIno
    /\ Cardinality(Names(FS, "B")) >= 4

\* a string of the cgroup image holds pat
RECURSIVE DirMentions(_, _)
DirMentions(dir, pat) ==
    \/ Occ(dir.name, pat) # {}
    \/ \E i \in 1..Len(dir.children) : DirMentions(dir.children[i], pat)

Mentions(c, pat) ==
    /\ c.k = "stream"
    /\ \E i \in 1..Len(c.recs) :
          /\ c.recs[i] # Garbage
          /\ \/ \E x \in 1..Len(c.recs[i].sets) : \E y \in 1..Len(c.recs[i].sets[x]) :
                    Occ(c.recs[i].sets[x][y], pat) # {}
             \/ \E x \in 1..Len(c.recs[i].ctrls) : \E y \in 1..Len(c.recs[i].ctrls[x]) :
                    DirMentions(c.recs[i].ctrls[x][y], pat)

\* C18: for a cloned checkpoint patch-criu is run with mac= the MAC of the
\* target without its colons, ip= the IPv4 address of the target and
\* cgroup= the cgroup path of the source (PathS) and of the target (PathT);
\* when patchImage has returned without an error cgroup.img of the clone
\* does not hold the cgroup path of the source.
C18_CloneRewritesCgroup ==
    /\ cpc \in {"patch", "rename", "ok"} =>
          /\ \E i \in 1..Len(pargs) :
                 pargs[i] = DMac(StringsReplace(TargetMac, <<Colon>>, <<>>))
          /\ \E i \in 1..Len(pargs) :
                 pargs[i].key = "ip" /\ pargs[i].ip.a \in TargetIps
          /\ \E i \in 1..Len(pargs) : pargs[i] = DCgroup(PathS, PathT)
    /\ cpc = "ok" => ~Mentions(DirView(FS, "B")["cgroup.img"], PathS)

\* C19: no step of clone, of the rewrite or of the renames changes the
\* content, or the presence, of a file of the source image directory.
C19_SourceUnchanged ==
    [][DirView([fs |-> fs', ino |-> ino'], "A") = DirView(FS, "A")]_vars

\* patchImage returned without an error, and the clone's netdev-8.img and
\* ifaddr-8.img, hard links to the source's at first, differ from the
\* source's
C19_CloneRewritten ==
    /\ cpc = "ok"
    /\ DirView(FS, "B")["netdev-8.img"] # DirView(FS, "A")["netdev-8.img"]
    /\ DirView(FS, "B")["ifaddr-8.img"] # DirView(FS, "A")["ifaddr-8.img"]
    /\ fs["B"]["cgroup.img"] = fs["A"]["cgroup.img"]

----------------------------------------------------------------------------
\* Properties of the accesses to d.activeContainers.

\* C33: every read and every write of d.activeContainers is made with the
\* driver's mutex held, so that no lookup by Checkpoint, Pause or Unpause
\* is in progress while run inserts an entry or cleanContainer deletes one.
C33_NoReadDuringWrite ==
    \A t \in TableReaders :
        tpc[t] = "reading" => Writing = {}

----------------------------------------------------------------------------
\* Termination of rewriteBytes.

\* C30: the substitution loop of rewriteBytes ends for every data buffer
\* and every pair (from, to): every call returns, also when from equals to,
\* when from is empty, when to is empty, and when a replacement creates a
\* new occurrence of from.
C30_RewriteBytesTerminates == <>(bpc = "done")

----------------------------------------------------------------------------
\* Properties of the command line of criu dump.

\* C21: criu is run with dump, -v4, -o /dev/stdout, --manage-cgroups,
\* --evasive-devices, then one --ext-mount-map pair for each of the four
\* system files and for every volume, then -D <image dir>, -t <pid>,
\* --root <rootfs>, and no --ext-mount-map stands after -D.
C21_DumpArgumentOrder ==
    apc = "done" =>
        LET n == Len(cmdArgs)
            k == Cardinality(DOMAIN Volumes)
            mount(i) == SubSeq(cmdArgs, 5 + 2 * i, 6 + 2 * i)
        IN  /\ n = 20 + 2 * k
            /\ SubSeq(cmdArgs, 1, 6) = <<"dump", "-v4", "-o", "/dev/stdout",
                                         "--manage-cgroups", "--evasive-devices">>
            /\ \A i \in 1..4 : mount(i) = ExtMountMap(SystemMounts[i])
            /\ {mount(i) : i \in 5..(4 + k)}
                  = {ExtMountMap(VolumeMount(h, Volumes[h])) : h \in DOMAIN Volumes}
            /\ SubSeq(cmdArgs, n - 5, n)
                  = <<"-D", ImagePath, "-t", ContainerPid, "--root", Rootfs>>
            /\ \A i \in 1..n : \A d \in 1..n :
                   (cmdArgs[i] = "--ext-mount-map" /\ cmdArgs[d] = "-D") => i < d

====
